---- MODULE Spec2Model ----
(***************************************************************************)
(* nocta-ui CLI: the installation pipeline.                                *)
(*                                                                         *)
(*   SpecResolve  the Dependency Graph Resolver                            *)
(*                (crates/core/src/registry.rs)                            *)
(*   SpecAdd      one run of `add`: conflict check, confirmation, file     *)
(*                writes, barrel updates, dependency installs, rollback    *)
(*                (crates/cli/src/commands/add.rs)                         *)
(*   SpecDeps     dependency reconciliation for one required package       *)
(*                (crates/core/src/deps.rs)                                *)
(*   SpecPlan     plan_dependency_install (crates/core/src/deps.rs)        *)
(*   SpecCache    one call of fetch_with_cache                             *)
(*                (crates/core/src/registry.rs, crates/core/src/cache.rs)  *)
(*   SpecSelect   select_workspace_handle for one file                     *)
(*   SpecGather   the files of one component and its dependency target     *)
(*                (crates/cli/src/commands/add.rs)                         *)
(*   SpecNormalize     normalize_component_content applied twice           *)
(*   SpecBarrel        merges of component exports into a barrel file      *)
(*   SpecCollect       collect_components and the requested/dependency     *)
(*                     partition                                           *)
(*   SpecRun           one live run of `add` from its fetches to its       *)
(*                     writes                                              *)
(*   SpecDependencies  handle_workspace_dependencies over the workspaces   *)
(*   SpecPlace         the path one component file is written to           *)
(*                     (crates/cli/src/commands/add.rs,                    *)
(*                     crates/core/src/paths.rs)                           *)
(*   SpecInit          one run of `init` and its rollback                  *)
(*                     (crates/cli/src/commands/init.rs,                   *)
(*                     crates/core/src/rollback.rs)                        *)
(*                                                                         *)
(* The machines share one module; each specification initialises the      *)
(* variables of the other machines to their idle values and never changes  *)
(* them.                                                                   *)
(***************************************************************************)
EXTENDS Integers, Sequences, FiniteSets, TLC

(***************************************************************************)
(* Bounds                                                                  *)
(***************************************************************************)
\* slugs present in the registry component map are 1..NumSlugs
NumSlugs == 3
\* total number of internalDependencies entries in the registry
MaxEdges == 3
\* distinct files of the project tree a run can touch
NumInodes == 2
\* component files planned by one run
MaxFiles == 2
\* dependency install plans of one run
MaxPlans == 1
\* largest major and minor number of a version string
MaxVer == 1
\* largest TTL and largest age of a cache file, in the unit of MAX_CACHE_AGE
MaxTime == 3
\* workspaces of the context: the primary and the linked ones
MaxHandles == 2

VARIABLES
  \* ---- Dependency Graph Resolver ----
  components,   \* registry.components: slug -> internal_dependencies
  requested,    \* the `component` argument of fetch_component_with_dependencies
  rpc,          \* "idle" | "running" | "ok" | "notfound"
  call,         \* slug a pending recursive call was made with, or NoCall
  stack,        \* active frames of collect_component_with_dependencies
  visiting,
  visited,
  ordered,
  \* ---- one run of `add` ----
  dry_run,        \* AddArgs::dry_run
  files,          \* all_component_files: absolute_path and content, in order
  barrel,         \* barrel_abs of the workspace with named exports, or NoBarrel
  plans,          \* number of install plans with something to install
  disk,           \* the project tree: file -> contents
  pre_run,        \* the project tree when the run started
  written_files,  \* AddCommand::written_files, the change log
  apc,            \* position of the run
  idx,            \* loop index of the current phase
  writes,         \* write_file calls that returned Ok
  updates,        \* ExportUpdate entries produced
  executed,       \* plan.execute() calls
  error,          \* the Err of AddCommand::execute, or "none"
  outcome,        \* what run() returns: "Completed" | "NoOp" | "Err"
  returned_error, \* the error inside the returned Err
  rb_attempted,   \* change-log indexes rollback_file_changes has processed
  rb_result,      \* result of rollback_file_changes: "none" | "ok" | "err"
  reported,       \* reporter lines printed so far
  \* ---- dependency reconciliation ----
  required_range, \* the range of the one entry of `requirements`
  node_modules,   \* node_modules/<name>/package.json in base and its parent
  declared_spec,  \* the entry of <name> in base/package.json, if any
  uses_yarn_pnp,  \* detect_yarn_pnp(base)
  dpc,            \* "start" | "done"
  issues,         \* the Vec<RequirementIssue> returned
  \* ---- install planning ----
  dependencies,   \* the `dependencies` map: package name -> range
  context,        \* the PackageManagerContext
  lockfiles,      \* the lockfiles found in context.repo_root
  package_manager_field, \* `packageManager` of repo_root/package.json
  bunfig_linker,  \* bun_install_linker(repo_root)
  ppc,            \* "idle" | "start" | "done"
  plan,           \* the Option<DependencyInstallPlan> returned
  \* ---- registry cache ----
  ttl,            \* the `ttl` argument of fetch_with_cache
  cache_entry,    \* the file at the cache path: its text, if it exists
  elapsed,        \* time since the cache file was modified
  sidecar,        \* the .meta file: the HttpCacheMetadata stored, if any
  pre_fetch,      \* cache entry, sidecar and age when the call started
  request,        \* the conditional headers of the GET sent, if one was sent
  requests_sent,  \* number of GETs sent
  response,       \* what came back for the GET, if anything yet
  fpc,            \* "idle" | "start" | "sent" | "done"
  fetched,        \* the Result returned
  \* ---- workspace targeting of one component ----
  handles,        \* WorkspaceContext::handles, the primary first
  component_files, \* entry.component.files: the `target` of each file
  file_idx,       \* index of the file the loop is at
  pending_files,  \* the workspace_id of each PendingComponentFile pushed
  workspace_ids_for_component,
  preferred_target, \* what select_dependency_target returned
  gpc,            \* "idle" | "files" | "done" | "failed"
  gather_error,   \* the target the error names, if the gathering failed
  \* ---- the Import Path Normalizer on one import ----
  content,        \* the fetched content: one quoted import path
  nhandle,        \* the destination WorkspaceHandle
  normalized_content,\* the content after each successive run of the normalizer
  \* ---- the Export Barrel Merger on one barrel file ----
  barrel_file,    \* the barrel on disk: its text, if the file exists
  barrel_original,\* the barrel as it was before the first merge
  merges,         \* number of sync_component_exports calls made
  last_sync,      \* the barrel before the last call, the files merged, what was done
  bpc,            \* "idle" | "sync"
  \* ---- collect_components and the partition of its result ----
  registry_deps,  \* internal_dependencies of every component of the registry
  requested_slugs,\* the slugs resolved from the command line, in order
  req_idx,        \* index of the requested slug the loop is at
  seen,           \* slugs already in the combined list
  entries,        \* the combined component list
  requested_entries,\* the entries classified requested
  dependency_entries,\* the entries classified dependency-only
  kpc,            \* "idle" | "collect" | "partition" | "done"
  \* ---- one live run of add, from its fetches to its writes ----
  xpc,            \* "idle" | "lookup" | "names" | "collect" | "fetch" | "write" | "returned"
  pending,        \* pending_files: the absolute path of each planned file
  next_fetch,     \* index of the next fetch buffer_unordered starts
  in_flight,      \* the fetches started and not completed
  fetch_results,  \* the results in the order the fetches completed
  gathered,       \* the files not yet written, in the order of the results
  log_order,      \* the paths of the change-log entries, in order
  written_content,\* for each path, the planned file last written to it
  installs,       \* number of installs run
  run_result,     \* what execute() returned
  fetch_error,    \* the fetch that failed, if one did
  \* ---- handle_workspace_dependencies over the workspaces ----
  hpc,            \* the step of handle_workspace_dependencies
  deps_dry_run,   \* the dry_run argument
  handle_idx,     \* the position of the loop in context.handles()
  workspace_spec, \* deps_by_workspace[handle.id] of the current handle
  project,        \* node_modules/<name>/package.json under base_path, per package
  requirement_issues,\* the issues check_project_requirements returned
  deps_to_install,\* the BTreeMap of the regular scope
  dev_deps_to_install,\* the BTreeMap of the dev scope
  install_plans,  \* the plans plan_dependency_install returned so far
  deps_result,    \* what handle_workspace_dependencies returned
  \* ---- where one component file is written ----
  tpc,            \* "idle" | "plan" | "write" | "done"
  registry_path,  \* file.path, as the registry gives it
  components_path,\* config.aliases.components.filesystem_path()
  component_slug, \* entry.slug
  root_abs,       \* handle.root_abs of the selected workspace
  relative_path,  \* the path resolved under the components directory
  absolute_path,  \* root_abs.join(relative_path)
  written_to,     \* the paths write_file was called with
  \* ---- one run of init ----
  ipc,            \* the step of InitCommand::execute, or "failed" | "returned"
  init_dry_run,   \* self.dry_run
  is_ui,          \* workspace.config_workspace.kind == WorkspaceKind::Ui
  manage_here,    \* dependencies_managed_in_workspace(&workspace)
  project_files,  \* the content of each file init may touch
  pre_init,       \* project_files before the run
  created_paths,  \* self.created_paths
  init_outcome,   \* "none" | "NoOp" | "Completed" | "Err"
  rolled_back     \* rollback_changes was called

rvars == <<components, requested, rpc, call, stack, visiting, visited, ordered>>

avars == <<dry_run, files, barrel, plans, disk, pre_run, written_files, apc,
           idx, writes, updates, executed, error, outcome, returned_error,
           rb_attempted, rb_result, reported>>

dvars == <<required_range, node_modules, declared_spec, uses_yarn_pnp, dpc,
           issues>>

pvars == <<dependencies, context, lockfiles, package_manager_field,
           bunfig_linker, ppc, plan>>

cvars == <<ttl, cache_entry, elapsed, sidecar, pre_fetch, request,
           requests_sent, response, fpc, fetched>>

wvars == <<handles, component_files, file_idx, pending_files,
           workspace_ids_for_component, preferred_target, gpc, gather_error>>

nvars == <<content, nhandle, normalized_content>>

bvars == <<barrel_file, barrel_original, merges, last_sync, bpc>>

kvars == <<registry_deps, requested_slugs, req_idx, seen, entries, requested_entries, dependency_entries, kpc>>

xvars == <<xpc, pending, next_fetch, in_flight, fetch_results, gathered, log_order, written_content, installs, run_result, fetch_error>>

hvars == <<hpc, deps_dry_run, handle_idx, workspace_spec, project, requirement_issues, deps_to_install, dev_deps_to_install, install_plans, deps_result>>

tvars == <<tpc, registry_path, components_path, component_slug, root_abs, relative_path, absolute_path, written_to>>

ivars == <<ipc, init_dry_run, is_ui, manage_here, project_files, pre_init, created_paths, init_outcome, rolled_back>>

vars == <<rvars, avars, dvars, pvars, cvars, wvars, nvars, bvars, kvars, xvars, hvars, tvars, ivars>>

(***************************************************************************)
(* Helpers                                                                 *)
(***************************************************************************)
Range(s) == {s[i] : i \in 1..Len(s)}

SeqsUpTo(S, n) == UNION {[1..k -> S] : k \in 0..n}

\* the functions from S to sequences over V whose lengths sum to at most n
RECURSIVE SeqMaps(_, _, _)
SeqMaps(S, V, n) ==
  IF S = {} THEN {<<>>}
  ELSE LET x == CHOOSE y \in S : \A z \in S : y >= z
       IN UNION {{Append(g, q) : g \in SeqMaps(S \ {x}, V, n - Len(q))} :
                 q \in SeqsUpTo(V, n)}

Last(s) == s[Len(s)]

(***************************************************************************)
(* Dependency Graph Resolver                                               *)
(***************************************************************************)
Slugs == 1..NumSlugs
\* a slug that is not a key of the component map
GhostSlug == 0
NoCall == -1

Registries == SeqMaps(Slugs, Slugs \cup {GhostSlug}, MaxEdges)

\* fetch_component_with_dependencies: fresh sets, then the outermost call
fetch_component_with_dependencies ==
  /\ rpc = "idle"
  /\ rpc' = "running"
  /\ call' = requested
  /\ ordered' = <<>>
  /\ visiting' = {}
  /\ visited' = {}
  /\ UNCHANGED <<components, requested, stack>>
  /\ UNCHANGED <<avars, dvars, pvars, cvars, wvars, nvars, bvars, kvars, xvars, hvars, tvars, ivars>>

\* mutant: a slug met again while on the DFS stack fails the resolution
OnRevisitFail(slug) ==
  /\ call' = NoCall
  /\ rpc' = "notfound"
  /\ stack' = <<>>
  /\ UNCHANGED visiting

\* what happens to a slug re-encountered while it is on the DFS stack:
\* visiting.insert returns false and the call returns Ok(())
OnRevisit(slug) ==
  /\ call' = NoCall
  /\ UNCHANGED <<stack, visiting, rpc>>

\* entry of collect_component_with_dependencies, up to the lookup of `current`
collect_enter ==
  /\ rpc = "running"
  /\ call # NoCall
  /\ IF call \in visited
       THEN /\ call' = NoCall
            /\ UNCHANGED <<stack, visiting, rpc>>
     ELSE IF call \in visiting
       THEN OnRevisit(call)
     ELSE IF call \notin DOMAIN components
       THEN \* ComponentNotFound propagates through every frame by `?`
            /\ visiting' = visiting \cup {call}
            /\ rpc' = "notfound"
            /\ call' = NoCall
            /\ stack' = <<>>
     ELSE /\ visiting' = visiting \cup {call}
          /\ stack' = Append(stack, [slug |-> call, next |-> 1])
          /\ call' = NoCall
          /\ UNCHANGED rpc
  /\ UNCHANGED <<components, requested, visited, ordered>>
  /\ UNCHANGED <<avars, dvars, pvars, cvars, wvars, nvars, bvars, kvars, xvars, hvars, tvars, ivars>>

\* one iteration of `for dep in &current.internal_dependencies`
collect_next_dep ==
  /\ rpc = "running"
  /\ call = NoCall
  /\ stack # <<>>
  /\ LET top == Last(stack) IN
       /\ top.next <= Len(components[top.slug])
       /\ call' = components[top.slug][top.next]
       /\ stack' = [stack EXCEPT ![Len(stack)].next = top.next + 1]
  /\ UNCHANGED <<components, requested, rpc, visiting, visited, ordered>>
  /\ UNCHANGED <<avars, dvars, pvars, cvars, wvars, nvars, bvars, kvars, xvars, hvars, tvars, ivars>>

\* mutant: the component is recorded before its dependencies (pre-order)
PushOrderedFront(list, slug) == <<slug>> \o list

\* where a finished component is put in `ordered`
PushOrdered(list, slug) == Append(list, slug)

\* the tail of collect_component_with_dependencies: the loop is over
collect_finish ==
  /\ rpc = "running"
  /\ call = NoCall
  /\ stack # <<>>
  /\ LET top == Last(stack) IN
       /\ top.next > Len(components[top.slug])
       /\ visiting' = visiting \ {top.slug}
       /\ visited' = visited \cup {top.slug}
       /\ ordered' = PushOrdered(ordered, top.slug)
       /\ stack' = SubSeq(stack, 1, Len(stack) - 1)
       /\ rpc' = IF Len(stack) = 1 THEN "ok" ELSE "running"
  /\ UNCHANGED <<components, requested, call>>
  /\ UNCHANGED <<avars, dvars, pvars, cvars, wvars, nvars, bvars, kvars, xvars, hvars, tvars, ivars>>

NextResolve ==
  \/ fetch_component_with_dependencies
  \/ collect_enter
  \/ collect_next_dep
  \/ collect_finish


(***************************************************************************)
(* One run of `add`, from the conflict check on                            *)
(*                                                                         *)
(* The environment may fail any write_file, fs::write, fs::remove_file and *)
(* any package-manager subprocess; reads of the project tree succeed.      *)
(***************************************************************************)
Inodes == 1..NumInodes
\* PathBuf values: path n names file n; the last path is a second spelling of
\* file 1 (`components/../components/x.tsx`), unequal as a PathBuf
AliasPath == NumInodes + 1
Paths == 1..AliasPath
Inode(p) == IF p = AliasPath THEN 1 ELSE p
NoBarrel == 0

\* file contents
Absent == <<"absent">>
Old == <<"old">>
\* what a failed write may leave behind
Partial == <<"partial">>
Content(i) == <<"new", i>>
BarrelContent == <<"barrel">>

\* find_existing_files: the planned files whose absolute path exists
find_existing_files == {i \in 1..Len(files) : disk[Inode(files[i])] # Absent}

\* execute() returns Err(e): control passes to the Err arm of run()
Fail(e) ==
  /\ error' = e
  /\ apc' = "failed"

\* the phase after write_component_files
AfterWrites(i) == IF i > Len(files) THEN "exports" ELSE "write"

\* execute(): the branch on existing_files, and handle_existing_files up to the
\* prompt
check_existing_files ==
  /\ apc = "check"
  /\ IF find_existing_files # {}
       THEN IF dry_run
              THEN /\ reported' = reported \cup {"conflicts", "would_overwrite"}
                   /\ apc' = AfterWrites(1)
              ELSE /\ reported' = reported \cup {"conflicts"}
                   /\ apc' = "confirm"
       ELSE /\ apc' = AfterWrites(1)
            /\ UNCHANGED reported
  /\ UNCHANGED <<dry_run, files, barrel, plans, disk, pre_run, written_files,
                 idx, writes, updates, executed, error, outcome,
                 returned_error, rb_attempted, rb_result>>
  /\ UNCHANGED <<rvars, dvars, pvars, cvars, wvars, nvars, bvars, kvars, xvars, hvars, tvars, ivars>>

\* mutant: a declined prompt is taken as consent
DeclinedAsYes(answer) == "write"

\* where the run goes after Confirm::interact answered yes or no
AfterConfirm(answer) == IF answer = "yes" THEN "write" ELSE "returned"

\* handle_existing_files in live mode: the overwrite prompt
confirm_overwrite ==
  /\ apc = "confirm"
  /\ \E answer \in {"yes", "no", "error"} :
       IF answer = "error"
         THEN /\ Fail("confirm")
              /\ UNCHANGED <<reported, outcome>>
         ELSE /\ apc' = AfterConfirm(answer)
              /\ outcome' = IF apc' = "returned" THEN "NoOp" ELSE outcome
              /\ reported' = IF answer = "no" THEN reported \cup {"cancelled"}
                             ELSE reported
              /\ UNCHANGED error
  /\ UNCHANGED <<dry_run, files, barrel, plans, disk, pre_run, written_files,
                 idx, writes, updates, executed, returned_error,
                 rb_attempted, rb_result>>
  /\ UNCHANGED <<rvars, dvars, pvars, cvars, wvars, nvars, bvars, kvars, xvars, hvars, tvars, ivars>>

Recorded(log, path) == \E i \in 1..Len(log) : log[i].path = path

\* mutant: every touch of a path replaces the recorded snapshot
EnsureChangeRecordLatest(log, path, tree) ==
  IF Recorded(log, path)
    THEN [i \in 1..Len(log) |->
            IF log[i].path = path
              THEN [path |-> path, previous_contents |-> tree[Inode(path)]]
              ELSE log[i]]
    ELSE Append(log, [path |-> path, previous_contents |-> tree[Inode(path)]])

\* ensure_change_record: the first touch of a path snapshots it
ensure_change_record(log, path, tree) ==
  IF Recorded(log, path)
    THEN log
    ELSE Append(log, [path |-> path, previous_contents |-> tree[Inode(path)]])

\* the trees a failed write of `path` can leave
FailedWrite(tree, path) ==
  {tree, [tree EXCEPT ![Inode(path)] = Partial]}

\* mutant: the dry-run test of the write loop is gone
NeverSkip(dry) == FALSE

\* write_component_files: `if dry_run { continue; }`
SkipWrite(dry) == dry

\* one iteration of the loop of write_component_files
write_component_file ==
  /\ apc = "write"
  /\ idx <= Len(files)
  /\ IF SkipWrite(dry_run)
       THEN /\ idx' = idx + 1
            /\ apc' = AfterWrites(idx + 1)
            /\ UNCHANGED <<disk, written_files, writes, error>>
       ELSE /\ written_files' = ensure_change_record(written_files, files[idx], disk)
            /\ \/ /\ disk' = [disk EXCEPT ![Inode(files[idx])] = Content(idx)]
                  /\ writes' = writes + 1
                  /\ idx' = idx + 1
                  /\ apc' = AfterWrites(idx + 1)
                  /\ UNCHANGED error
               \/ /\ disk' \in FailedWrite(disk, files[idx])
                  /\ Fail("write")
                  /\ UNCHANGED <<writes, idx>>
  /\ UNCHANGED <<dry_run, files, barrel, plans, pre_run, updates, executed,
                 outcome, returned_error, rb_attempted, rb_result, reported>>
  /\ UNCHANGED <<rvars, dvars, pvars, cvars, wvars, nvars, bvars, kvars, xvars, hvars, tvars, ivars>>

\* sync_component_exports for the workspace with a named-export barrel
sync_component_exports ==
  /\ apc = "exports"
  /\ \/ \* no barrel configured, or merged_map == existing_map
        /\ apc' = "deps"
        /\ UNCHANGED <<disk, written_files, writes, updates, error, reported>>
     \/ /\ barrel # NoBarrel
        /\ IF dry_run
             THEN /\ updates' = updates + 1
                  /\ reported' = reported \cup {"would_update_barrel"}
                  /\ apc' = "deps"
                  /\ UNCHANGED <<disk, written_files, writes, error>>
             ELSE /\ written_files' = ensure_change_record(written_files, barrel, disk)
                  /\ \/ /\ disk' = [disk EXCEPT ![Inode(barrel)] = BarrelContent]
                        /\ writes' = writes + 1
                        /\ updates' = updates + 1
                        /\ reported' = reported \cup {"barrel_updated"}
                        /\ apc' = "deps"
                        /\ UNCHANGED error
                     \/ /\ disk' \in FailedWrite(disk, barrel)
                        /\ Fail("barrel")
                        /\ UNCHANGED <<writes, updates, reported>>
  /\ idx' = 1
  /\ UNCHANGED <<dry_run, files, barrel, plans, pre_run, executed, outcome,
                 returned_error, rb_attempted, rb_result>>
  /\ UNCHANGED <<rvars, dvars, pvars, cvars, wvars, nvars, bvars, kvars, xvars, hvars, tvars, ivars>>

\* handle_workspace_dependencies: one install plan per iteration; after the
\* last one execute() returns Ok(Completed)
handle_workspace_dependencies ==
  /\ apc = "deps"
  /\ IF idx > plans
       THEN /\ outcome' = "Completed"
            /\ apc' = "returned"
            /\ UNCHANGED <<idx, executed, error, reported>>
     ELSE IF dry_run
       THEN /\ reported' = reported \cup {"would_install"}
            /\ idx' = idx + 1
            /\ UNCHANGED <<apc, executed, error, outcome>>
       ELSE /\ executed' = executed + 1
            /\ \/ /\ idx' = idx + 1
                  /\ reported' = reported \cup {"installed"}
                  /\ UNCHANGED <<apc, error>>
               \/ \* plan.execute()? : spawn failure or non-zero exit
                  /\ Fail("install")
                  /\ UNCHANGED <<idx, reported>>
            /\ UNCHANGED outcome
  /\ UNCHANGED <<dry_run, files, barrel, plans, disk, pre_run, written_files,
                 writes, updates, returned_error, rb_attempted, rb_result>>
  /\ UNCHANGED <<rvars, dvars, pvars, cvars, wvars, nvars, bvars, kvars, xvars, hvars, tvars, ivars>>

\* the Err arm of run(): finish(), rollback(), Err(err); this is the guard of
\* AddCommand::rollback
run_error ==
  /\ apc = "failed"
  /\ IF dry_run \/ written_files = <<>>
       THEN /\ outcome' = "Err"
            /\ returned_error' = error
            /\ apc' = "returned"
            /\ UNCHANGED idx
       ELSE /\ apc' = "rollback"
            /\ idx' = Len(written_files)
            /\ UNCHANGED <<outcome, returned_error>>
  /\ UNCHANGED <<dry_run, files, barrel, plans, disk, pre_run, written_files,
                 writes, updates, executed, error, rb_attempted, rb_result,
                 reported>>
  /\ UNCHANGED <<rvars, dvars, pvars, cvars, wvars, nvars, bvars, kvars, xvars, hvars, tvars, ivars>>

\* mutant: the change log is replayed oldest entry first
OldestFirst(n, k) == n - k + 1

\* rollback_file_changes walks changes.iter().rev(): the entry handled when k
\* of n entries are still to go
RollbackEntry(n, k) == k

\* restoring one entry: rewrite the snapshot, or remove a file that was absent
Restore(tree, change) ==
  [tree EXCEPT ![Inode(change.path)] = change.previous_contents]

\* one iteration of rollback_file_changes, and the return of run() after it
rollback_file_change ==
  /\ apc = "rollback"
  /\ LET e == RollbackEntry(Len(written_files), idx)
         change == written_files[e]
     IN /\ rb_attempted' = rb_attempted \cup {e}
        /\ \/ /\ disk' = Restore(disk, change)
              /\ idx' = idx - 1
              /\ IF idx = 1
                   THEN /\ rb_result' = "ok"
                        /\ reported' = reported \cup {"rolled_back"}
                        /\ outcome' = "Err"
                        /\ returned_error' = error
                        /\ apc' = "returned"
                   ELSE UNCHANGED <<rb_result, reported, outcome,
                                    returned_error, apc>>
           \/ \* with_context(..)? : the first failure ends the rollback
              \* (an absent file recorded as absent leaves nothing to fail)
              /\ ~(change.previous_contents = Absent
                    /\ disk[Inode(change.path)] = Absent)
              /\ disk' \in (IF change.previous_contents = Absent
                              THEN {disk}
                              ELSE FailedWrite(disk, change.path))
              /\ rb_result' = "err"
              /\ reported' = reported \cup {"rollback_failed"}
              /\ outcome' = "Err"
              /\ returned_error' = error
              /\ apc' = "returned"
              /\ UNCHANGED idx
  /\ UNCHANGED <<dry_run, files, barrel, plans, pre_run, written_files,
                 writes, updates, executed, error>>
  /\ UNCHANGED <<rvars, dvars, pvars, cvars, wvars, nvars, bvars, kvars, xvars, hvars, tvars, ivars>>

NextAdd ==
  \/ check_existing_files
  \/ confirm_overwrite
  \/ write_component_file
  \/ sync_component_exports
  \/ handle_workspace_dependencies
  \/ run_error
  \/ rollback_file_change


(***************************************************************************)
(* Dependency reconciliation: check_project_requirements for one package   *)
(*                                                                         *)
(* A version or range string is [op, parts]: an optional leading operator  *)
(* or `v`, then major.minor.patch; "*" and "latest" carry no number.       *)
(***************************************************************************)
None == <<>>
Some(x) == <<x>>
Get(o) == o[1]

Versions == {<<major, minor, 0>> : major \in 0..MaxVer, minor \in 0..MaxVer}
Str(op, v) == [op |-> op, parts |-> v]
Star == Str("*", <<>>)
Tag == Str("latest", <<>>)
HasNumber(s) == s.parts # <<>>
SpecStrings ==
  {Str(op, v) : op \in {"", "v", "^", "~", ">="}, v \in Versions}
    \cup {Star, Tag}

\* a node_modules/<name>/package.json: missing, or present with a `version`
\* that may be unreadable
NoEntry == [exists |-> FALSE, version |-> None]
Entry(v) == [exists |-> TRUE, version |-> v]
Entries ==
  {NoEntry, Entry(None), Entry(Some(Tag))}
    \cup {Entry(Some(Str("", v))) : v \in Versions}

\* the directories node_module_package_json_path visits, nearest first
SearchDirs == <<"base", "parent">>

\* node_module_package_json_path: the first directory, walking upward, whose
\* node_modules holds the package
node_module_package_json_path(nm) ==
  LET hits == {i \in 1..Len(SearchDirs) : nm[SearchDirs[i]].exists}
  IN IF hits = {} THEN NoEntry
     ELSE nm[SearchDirs[CHOOSE i \in hits : \A j \in hits : i <= j]]

\* read_installed_version
read_installed_version(nm) == node_module_package_json_path(nm).version

\* normalize_version_str: trim_start_matches('v')
normalize_version_str(s) == IF s.op = "v" THEN Str("", s.parts) ELSE s

\* parse_version: Version::parse accepts a bare major.minor.patch only
parse_version(s) ==
  LET n == normalize_version_str(s)
  IN IF n.op = "" /\ HasNumber(n) THEN Some(n.parts) ELSE None

\* parse_version_req: VersionReq::parse; a bare version is a caret range, `v`
\* and a dist-tag do not parse
parse_version_req(s) ==
  IF s = Star THEN Some(s)
  ELSE IF s.op \in {"^", "~", ">="} THEN Some(s)
  ELSE IF s.op = "" /\ HasNumber(s) THEN Some(Str("^", s.parts))
  ELSE None

VersionLess(a, b) ==
  \/ a[1] < b[1]
  \/ a[1] = b[1] /\ a[2] < b[2]
  \/ a[1] = b[1] /\ a[2] = b[2] /\ a[3] < b[3]

VersionGeq(a, b) == ~VersionLess(a, b)

\* VersionReq::matches for the comparators above
matches(req, v) ==
  LET r == req.parts IN
  CASE req.op = "*" -> TRUE
    [] req.op = ">=" -> VersionGeq(v, r)
    [] req.op = "~" -> VersionGeq(v, r) /\ v[1] = r[1] /\ v[2] = r[2]
    [] req.op = "^" ->
         /\ VersionGeq(v, r)
         /\ v[1] = r[1]
         /\ r[1] = 0 => v[2] = r[2]
         /\ (r[1] = 0 /\ r[2] = 0) => v[3] = r[3]

\* extract_major: the first run of digits after any leading `v`
extract_major(s) == IF HasNumber(s) THEN Some(s.parts[1]) ELSE None

\* extract_version_from_spec: the version starting at the first digit
extract_version_from_spec(s) == IF HasNumber(s) THEN Some(s.parts) ELSE None

\* mutant: only the declared version is tried against the required range
DeclaredVersionOnly(required, declared) ==
  /\ extract_version_from_spec(declared) # None
  /\ parse_version_req(required) # None
  /\ matches(Get(parse_version_req(required)),
             Get(extract_version_from_spec(declared)))

\* yarn_declared_satisfies
yarn_declared_satisfies(required, declared) ==
  \/ /\ extract_version_from_spec(declared) # None
     /\ parse_version_req(required) # None
     /\ matches(Get(parse_version_req(required)),
                Get(extract_version_from_spec(declared)))
  \/ /\ extract_version_from_spec(required) # None
     /\ parse_version_req(declared) # None
     /\ matches(Get(parse_version_req(declared)),
                Get(extract_version_from_spec(required)))

Issue(required, installed, declared, reason) ==
  [name |-> "dep", required |-> required, installed |-> installed,
   declared |-> declared, reason |-> reason]

\* mutant: an equal major counts as newer
MajorAtLeast(installed, required) == installed >= required

\* higher_version_satisfied: `installed > required`
HigherMajor(installed, required) == installed > required

\* mutant: an unparsable installed version is reported as Outdated
AlwaysOutdated(resolved_version) == "Outdated"

\* the reason of an issue about a package that has a node_modules entry
IssueReason(resolved_version) ==
  IF resolved_version # None THEN "Outdated" ELSE "Unknown"

\* installed_spec: installed_version.or_else(|| declared.get(name))
installed_spec(installed_version, declared) ==
  IF installed_version # None THEN installed_version ELSE declared

\* the body of the loop of check_project_requirements when the package has a
\* node_modules entry
CheckInstalled(required, nm, declared) ==
  LET spec == installed_spec(read_installed_version(nm), declared)
      resolved_version == IF spec = None THEN None ELSE parse_version(Get(spec))
      version_req == parse_version_req(required)
      range_satisfied ==
        /\ resolved_version # None
        /\ version_req # None
        /\ matches(Get(version_req), Get(resolved_version))
      installed_major == IF spec = None THEN None ELSE extract_major(Get(spec))
      required_major == extract_major(required)
      higher_version_satisfied ==
        /\ installed_major # None
        /\ required_major # None
        /\ HigherMajor(Get(installed_major), Get(required_major))
      installed_string ==
        IF resolved_version = None THEN None
        ELSE Some(Str("", Get(resolved_version)))
      declared_string ==
        IF spec = None THEN None
        ELSE IF installed_string # None /\ installed_string = spec THEN None
        ELSE spec
  IN IF range_satisfied \/ higher_version_satisfied
       THEN <<>>
       ELSE <<Issue(required, installed_string, declared_string,
                    IssueReason(resolved_version))>>

\* mutant: without a node_modules entry the declared spec is reconciled
MissingModuleUsesDeclared(required, declared, pnp) ==
  IF declared # None
     /\ CheckInstalled(required, [d \in {"base", "parent"} |-> Entry(None)],
                       declared) = <<>>
    THEN <<>>
    ELSE <<Issue(required, None, declared,
                 IF declared # None THEN "Outdated" ELSE "Missing")>>

\* the body of the loop when module_path.is_none()
CheckMissingModule(required, declared, pnp) ==
  IF pnp /\ declared # None /\ yarn_declared_satisfies(required, Get(declared))
    THEN <<>>
    ELSE <<Issue(required, None, declared,
                 IF declared # None THEN "Outdated" ELSE "Missing")>>

\* check_project_requirements over the one required package
check_project_requirements ==
  /\ dpc = "start"
  /\ issues' = IF node_module_package_json_path(node_modules).exists
                 THEN CheckInstalled(required_range, node_modules, declared_spec)
                 ELSE CheckMissingModule(required_range, declared_spec,
                                         uses_yarn_pnp)
  /\ dpc' = "done"
  /\ UNCHANGED <<required_range, node_modules, declared_spec, uses_yarn_pnp>>
  /\ UNCHANGED <<rvars, avars, pvars, cvars, wvars, nvars, bvars, kvars, xvars, hvars, tvars, ivars>>

NextDeps == check_project_requirements

(***************************************************************************)
(* Install planning: plan_dependency_install                               *)
(*                                                                         *)
(* A command-line argument is a tuple of strings: a plain word is <<w>>,   *)
(* a dependency token is <<name, "@", range>>.                             *)
(***************************************************************************)
PackageManagerKinds == {"npm", "pnpm", "yarn", "bun"}

\* package names, in the order `sort` puts their tokens
DepNames == <<"clsx", "react">>
DepRanges == {"^2.0.0", "^18.2.0"}
DependencyMaps == UNION {[S -> DepRanges] : S \in SUBSET Range(DepNames)}

RepoRoot == "/repo"
WorkspaceRoot == "/repo/packages/ui"
WorkspacePackage == "@acme/ui"

PackageManagerContexts ==
  [repo_root : {RepoRoot},
   workspace_root : {None, Some(WorkspaceRoot)},
   workspace_package : {None, Some(WorkspacePackage)},
   package_manager : {None} \cup {Some(k) : k \in PackageManagerKinds}]

Word(w) == <<w>>

\* format!("{}@{}", name, version)
Token(name, version) == <<name, "@", version>>

\* deps_with_versions: one token per entry of the map, sorted
deps_with_versions(deps) ==
  LET names == SelectSeq(DepNames, LAMBDA n : n \in DOMAIN deps)
  IN [i \in 1..Len(names) |-> Token(names[i], deps[names[i]])]

\* detect_package_manager: the first lockfile in the order pnpm, yarn, bun,
\* npm, then the packageManager field of package.json
detect_package_manager(locks, field) ==
  IF "pnpm" \in locks THEN Some("pnpm")
  ELSE IF "yarn" \in locks THEN Some("yarn")
  ELSE IF "bun" \in locks THEN Some("bun")
  ELSE IF "npm" \in locks THEN Some("npm")
  ELSE field

\* pm_kind: context.package_manager, or the detected manager, or npm
pm_kind(ctx, locks, field) ==
  IF ctx.package_manager # None THEN Get(ctx.package_manager)
  ELSE IF detect_package_manager(locks, field) # None
    THEN Get(detect_package_manager(locks, field))
  ELSE "npm"

\* workspace_descriptor
workspace_descriptor(ctx) ==
  IF ctx.workspace_package # None
    THEN Some(<<"workspace", Get(ctx.workspace_package)>>)
  ELSE IF ctx.workspace_root # None
    THEN Some(<<"directory", Get(ctx.workspace_root)>>)
  ELSE None

\* workspace_root.unwrap_or(repo_root)
RootOrRepo(ctx) ==
  IF ctx.workspace_root # None THEN Get(ctx.workspace_root) ELSE ctx.repo_root

Command(program, args, working_directory) ==
  [program |-> program, args |-> args, working_directory |-> working_directory]

\* mutant: yarn is given npm's --workspace flag
YarnWorkspaceFlag(ctx, tokens) ==
  IF ctx.workspace_package # None
    THEN Command("yarn",
                 <<Word("add")>> \o tokens
                   \o <<Word("--workspace"), Word(Get(ctx.workspace_package))>>,
                 ctx.repo_root)
    ELSE Command("yarn", <<Word("add")>> \o tokens, RootOrRepo(ctx))

\* the PackageManagerKind::Yarn arm
YarnCommand(ctx, tokens) ==
  IF ctx.workspace_package # None
    THEN Command("yarn",
                 <<Word("workspace"), Word(Get(ctx.workspace_package)),
                   Word("add")>> \o tokens,
                 ctx.repo_root)
    ELSE Command("yarn", <<Word("add")>> \o tokens, RootOrRepo(ctx))

\* the PackageManagerKind::Pnpm arm
PnpmCommand(ctx, tokens) ==
  IF ctx.workspace_package # None
    THEN Command("pnpm",
                 <<Word("add"), Word("--filter"),
                   Word(Get(ctx.workspace_package))>> \o tokens,
                 ctx.repo_root)
    ELSE Command("pnpm", <<Word("add")>> \o tokens, RootOrRepo(ctx))

\* the PackageManagerKind::Bun arm
BunCommand(ctx, tokens) ==
  Command("bun",
          <<Word("add")>> \o tokens
            \o (IF ctx.workspace_root # None
                  THEN <<Word("--cwd"), Word(Get(ctx.workspace_root))>>
                  ELSE <<>>),
          ctx.repo_root)

\* the PackageManagerKind::Npm arm
NpmCommand(ctx, tokens) ==
  IF ctx.workspace_package # None
    THEN Command("npm",
                 <<Word("install")>> \o tokens
                   \o <<Word("--workspace"), Word(Get(ctx.workspace_package))>>,
                 ctx.repo_root)
    ELSE Command("npm", <<Word("install")>> \o tokens, RootOrRepo(ctx))

\* the env of the plan: BUN_INSTALL_LINKER under bun when bunfig sets a linker
PlanEnv(kind, linker) ==
  IF kind = "bun" /\ linker # None
    THEN <<<<"BUN_INSTALL_LINKER", Get(linker)>>>>
    ELSE <<>>

DependencyInstallPlan(kind, command, ctx, tokens, linker) ==
  [package_manager |-> kind,
   program |-> command.program,
   args |-> command.args,
   working_directory |-> command.working_directory,
   workspace_descriptor |-> workspace_descriptor(ctx),
   dependencies |-> tokens,
   env |-> PlanEnv(kind, linker)]

\* plan_dependency_install
plan_dependency_install ==
  /\ ppc = "start"
  /\ ppc' = "done"
  /\ plan' =
       IF DOMAIN dependencies = {} THEN None
       ELSE LET tokens == deps_with_versions(dependencies)
                kind == pm_kind(context, lockfiles, package_manager_field)
                command ==
                  CASE kind = "yarn" -> YarnCommand(context, tokens)
                    [] kind = "pnpm" -> PnpmCommand(context, tokens)
                    [] kind = "bun" -> BunCommand(context, tokens)
                    [] kind = "npm" -> NpmCommand(context, tokens)
            IN Some(DependencyInstallPlan(kind, command, context, tokens,
                                          bunfig_linker))
  /\ UNCHANGED <<dependencies, context, lockfiles, package_manager_field,
                 bunfig_linker>>
  /\ UNCHANGED <<rvars, avars, dvars, cvars, wvars, nvars, bvars, kvars, xvars, hvars, tvars, ivars>>

NextPlan == plan_dependency_install

(***************************************************************************)
(* Registry cache: RegistryClient::fetch_with_cache for one cache path     *)
(*                                                                         *)
(* Time is counted in a unit in which MAX_CACHE_AGE_SECS is 2; the cache   *)
(* directory is taken to be readable and writable.                         *)
(***************************************************************************)
MAX_CACHE_AGE == 2

Times == 0..MaxTime

HttpCacheMetadata(etag, last_modified) ==
  [etag |-> etag, last_modified |-> last_modified]

\* the sidecars store_cache_metadata leaves on disk
Sidecars ==
  {None} \cup
  ({Some(HttpCacheMetadata(e, l)) :
      e \in {None, Some("etag-1")}, l \in {None, Some("date-1")}}
     \ {Some(HttpCacheMetadata(None, None))})

\* what request.send() and response.text() can produce
Ok200(etag, last_modified, text) ==
  [kind |-> "status", status |-> 200, etag |-> etag,
   last_modified |-> last_modified, text |-> text]
Status(code) ==
  [kind |-> "status", status |-> code, etag |-> None, last_modified |-> None,
   text |-> None]
SendError ==
  [kind |-> "error", status |-> 0, etag |-> None, last_modified |-> None,
   text |-> None]
Responses ==
  {SendError, Status(304), Status(404), Status(500)} \cup
  {Ok200(e, l, t) : e \in {None, Some("etag-2")},
                    l \in {None, Some("date-2")},
                    t \in {None, Some("new body")}}

\* StatusCode::is_success
is_success(status) == status >= 200 /\ status < 300

\* mutant: a stale read is refused once the TTL has passed
ReadCacheTtlAlways(entry, age, t, accept_stale) ==
  IF entry = None THEN [text |-> None, purge |-> FALSE]
  ELSE IF age > MAX_CACHE_AGE THEN [text |-> None, purge |-> TRUE]
  ELSE IF age > t THEN [text |-> None, purge |-> FALSE]
  ELSE [text |-> entry, purge |-> FALSE]

\* cache::read_cache_text: the text read, and whether the entry is purged
read_cache_text(entry, age, t, accept_stale) ==
  IF entry = None THEN [text |-> None, purge |-> FALSE]
  ELSE IF age > MAX_CACHE_AGE THEN [text |-> None, purge |-> TRUE]
  ELSE IF ~accept_stale /\ age > t THEN [text |-> None, purge |-> FALSE]
  ELSE [text |-> entry, purge |-> FALSE]

\* load_cache_metadata: a missing sidecar is the default metadata
load_cache_metadata(meta) ==
  IF meta = None THEN HttpCacheMetadata(None, None) ELSE Get(meta)

\* mutant: the request is sent without the stored validators
Unconditional(metadata) ==
  [if_none_match |-> None, if_modified_since |-> None]

\* the headers fetch_with_cache puts on the GET
ConditionalHeaders(metadata) ==
  [if_none_match |-> metadata.etag,
   if_modified_since |-> metadata.last_modified]

\* mutant: a validator the response lacks is kept from the old sidecar
StoreMerged(old, metadata) ==
  LET prev == load_cache_metadata(old)
      etag == IF metadata.etag # None THEN metadata.etag ELSE prev.etag
      last_modified ==
        IF metadata.last_modified # None THEN metadata.last_modified
        ELSE prev.last_modified
  IN IF etag = None /\ last_modified = None THEN None
     ELSE Some(HttpCacheMetadata(etag, last_modified))

\* store_cache_metadata: the sidecar after storing `metadata` over `old`
store_cache_metadata(old, metadata) ==
  IF metadata.etag = None /\ metadata.last_modified = None THEN None
  ELSE Some(metadata)

NetworkError == <<"Err", "Network">>
OkText(text) == <<"Ok", text>>

\* mutant: the freshness test of the first read is gone
NeverFresh(read) == FALSE

\* `if let Some(fresh) = self.read_cache(&cache_path, ttl, false)`
IsFresh(read) == read.text # None

\* fetch_with_cache up to request.send(): the fresh read, then the GET
fetch_with_cache ==
  /\ fpc = "start"
  /\ LET read == read_cache_text(cache_entry, elapsed, ttl, FALSE)
         entry == IF read.purge THEN None ELSE cache_entry
         meta == IF read.purge THEN None ELSE sidecar
     IN /\ cache_entry' = entry
        /\ sidecar' = meta
        /\ IF IsFresh(read)
             THEN /\ fetched' = OkText(Get(read.text))
                  /\ fpc' = "done"
                  /\ UNCHANGED <<request, requests_sent>>
             ELSE /\ request' = Some(ConditionalHeaders(load_cache_metadata(meta)))
                  /\ requests_sent' = requests_sent + 1
                  /\ fpc' = "sent"
                  /\ UNCHANGED fetched
  /\ UNCHANGED <<ttl, elapsed, pre_fetch, response>>
  /\ UNCHANGED <<rvars, avars, dvars, pvars, wvars, nvars, bvars, kvars, xvars, hvars, tvars, ivars>>

\* the stale fallback: `self.read_cache(&cache_path, ttl, true)` or the error
StaleFallback(read) ==
  IF read.text # None THEN OkText(Get(read.text)) ELSE NetworkError

\* fetch_with_cache from the answer of request.send() on
http_response ==
  /\ fpc = "sent"
  /\ \E r \in Responses :
       /\ response' = Some(r)
       /\ IF r.kind = "status" /\ is_success(r.status) /\ r.text # None
            THEN \* write_cache, store_cache_metadata, Ok(body)
                 /\ cache_entry' = r.text
                 /\ elapsed' = 0
                 /\ sidecar' =
                      store_cache_metadata(
                        sidecar, HttpCacheMetadata(r.etag, r.last_modified))
                 /\ fetched' = OkText(Get(r.text))
            ELSE \* 304, a failure status, a send error, a body read error
                 LET read == read_cache_text(cache_entry, elapsed, ttl, TRUE)
                 IN /\ cache_entry' = IF read.purge THEN None ELSE cache_entry
                    /\ sidecar' = IF read.purge THEN None ELSE sidecar
                    /\ fetched' = StaleFallback(read)
                    /\ UNCHANGED elapsed
  /\ fpc' = "done"
  /\ UNCHANGED <<ttl, pre_fetch, request, requests_sent>>
  /\ UNCHANGED <<rvars, avars, dvars, pvars, wvars, nvars, bvars, kvars, xvars, hvars, tvars, ivars>>

NextCache == fetch_with_cache \/ http_response

(***************************************************************************)
(* Workspace targeting: the loop of gather_component_files over the files  *)
(* of one component, select_workspace_handle, select_dependency_target     *)
(*                                                                         *)
(* A string is [base, mixed]: its lower-case spelling and whether it is    *)
(* spelled with upper-case letters.                                        *)
(***************************************************************************)
Lower(base) == [base |-> base, mixed |-> FALSE]
Mixed(base) == [base |-> base, mixed |-> TRUE]

\* str::to_ascii_lowercase
to_ascii_lowercase(name) == [name EXCEPT !.mixed = FALSE]

WorkspaceKinds == {"App", "Ui", "Library"}

\* handle.id: "primary", then "linked-<index>"
HandleId(i) == IF i = 1 THEN <<"primary", 0>> ELSE <<"linked", i - 2>>

\* root_rel of the workspaces, in the order of the handles
RootNames ==
  <<Lower("."), Mixed("lib"), Lower("packages/ui"), Lower("apps/web")>>

PackageNames == {Mixed("@acme/ui"), Lower("lib")}

WorkspaceHandle(i, kind, package_name) ==
  [id |-> HandleId(i), kind |-> kind, package_name |-> package_name,
   root_rel |-> RootNames[i]]

\* the contexts build_workspace_context produces: a primary handle, then one
\* handle per linked workspace
WorkspaceContexts(PackageOptions) ==
  UNION {
    {[i \in 1..n |-> WorkspaceHandle(i, kinds[i], packages[i])] :
       kinds \in [1..n -> WorkspaceKinds],
       packages \in [1..n -> PackageOptions]} :
    n \in 1..MaxHandles}

\* file.target: none, or a package name, root path, keyword or other word
FileTargets ==
  {None} \cup
  {Some(t) : t \in {Lower("@acme/ui"), Mixed("@acme/ui"), Lower("lib"),
                    Mixed("lib"), Lower("packages/ui"), Mixed("ui"),
                    Lower("shared"), Lower("app"), Lower("library"),
                    Lower("docs")}}

\* the targets of the files of a component spread over several workspaces
GatherTargets ==
  {None} \cup
  {Some(t) : t \in {Lower("lib"), Lower("packages/ui"), Lower("app"),
                    Lower("ui")}}

\* WorkspaceContext::primary
primary(hs) == hs[1]

\* Iterator::find over the handles: the first of the positions, or 0
FirstHandle(hits) ==
  IF hits = {} THEN 0 ELSE CHOOSE i \in hits : \A j \in hits : i <= j

\* WorkspaceContext::first_by_kind
first_by_kind(hs, kind) ==
  FirstHandle({i \in 1..Len(hs) : hs[i].kind = kind})

\* WorkspaceContext::handle_by_id
handle_by_id(hs, id) == FirstHandle({i \in 1..Len(hs) : hs[i].id = id})

ByPackage(hs, normalized) ==
  FirstHandle({i \in 1..Len(hs) :
                 /\ hs[i].package_name # None
                 /\ to_ascii_lowercase(Get(hs[i].package_name)) = normalized})

ByRoot(hs, normalized) ==
  FirstHandle({i \in 1..Len(hs) :
                 to_ascii_lowercase(hs[i].root_rel) = normalized})

ByKind(hs, normalized) ==
  CASE normalized = Lower("app") -> first_by_kind(hs, "App")
    [] normalized \in {Lower("ui"), Lower("shared")} ->
         first_by_kind(hs, "Ui")
    [] normalized \in {Lower("library"), Lower("lib")} ->
         first_by_kind(hs, "Library")
    [] OTHER -> 0

\* mutant: the kind keyword is tried before package name and root
KeywordFirst(hs, normalized) ==
  IF ByKind(hs, normalized) # 0 THEN ByKind(hs, normalized)
  ELSE IF ByPackage(hs, normalized) # 0 THEN ByPackage(hs, normalized)
  ELSE ByRoot(hs, normalized)

\* the three lookups of an explicit target, in order; 0 when none matches
ExplicitTarget(hs, normalized) ==
  IF ByPackage(hs, normalized) # 0 THEN ByPackage(hs, normalized)
  ELSE IF ByRoot(hs, normalized) # 0 THEN ByRoot(hs, normalized)
  ELSE ByKind(hs, normalized)

\* mutant: the primary workspace is always the default
AlwaysPrimary(hs) == 1

\* the handle of a file without a target
DefaultTarget(hs) ==
  IF primary(hs).kind = "App" /\ first_by_kind(hs, "Ui") # 0
    THEN first_by_kind(hs, "Ui")
    ELSE 1

\* select_workspace_handle: the position of the handle, or 0 for the error
select_workspace_handle(hs, target) ==
  IF target # None
    THEN ExplicitTarget(hs, to_ascii_lowercase(Get(target)))
    ELSE DefaultTarget(hs)

\* one iteration of `for file in &entry.component.files`
gather_file ==
  /\ gpc = "files"
  /\ file_idx <= Len(component_files)
  /\ LET target == component_files[file_idx]
         handle == select_workspace_handle(handles, target)
     IN IF handle = 0
          THEN \* anyhow::bail!("No workspace configured for target ...")
               /\ gpc' = "failed"
               /\ gather_error' = target
               /\ UNCHANGED <<file_idx, pending_files,
                              workspace_ids_for_component>>
          ELSE /\ pending_files' = Append(pending_files, handles[handle].id)
               /\ workspace_ids_for_component' =
                    workspace_ids_for_component \cup {handles[handle].id}
               /\ file_idx' = file_idx + 1
               /\ UNCHANGED <<gpc, gather_error>>
  /\ UNCHANGED <<handles, component_files, preferred_target>>
  /\ UNCHANGED <<rvars, avars, dvars, pvars, cvars, nvars, bvars, kvars, xvars, hvars, tvars, ivars>>

\* the ids of the set whose handle is of the kind
IdsOfKind(ids, hs, kind) ==
  {id \in ids : handle_by_id(hs, id) # 0 /\ hs[handle_by_id(hs, id)].kind = kind}

\* select_dependency_target: what it can return; `find` and `next` run over a
\* HashSet, whose iteration order is not the insertion order
select_dependency_target(ids, hs) ==
  IF ids = {} THEN {None}
  ELSE IF IdsOfKind(ids, hs, "Ui") # {}
    THEN {Some(id) : id \in IdsOfKind(ids, hs, "Ui")}
  ELSE IF IdsOfKind(ids, hs, "Library") # {}
    THEN {Some(id) : id \in IdsOfKind(ids, hs, "Library")}
  ELSE {Some(id) : id \in ids}

\* the end of the loop body of gather_component_files for the component
gather_dependency_target ==
  /\ gpc = "files"
  /\ file_idx > Len(component_files)
  /\ preferred_target' \in
       select_dependency_target(workspace_ids_for_component, handles)
  /\ gpc' = "done"
  /\ UNCHANGED <<handles, component_files, file_idx, pending_files,
                 workspace_ids_for_component, gather_error>>
  /\ UNCHANGED <<rvars, avars, dvars, pvars, cvars, nvars, bvars, kvars, xvars, hvars, tvars, ivars>>

NextGather == gather_file \/ gather_dependency_target

(***************************************************************************)
(* Graph vocabulary of the resolver claims                                 *)
(***************************************************************************)
DepsOf(s) == IF s \in DOMAIN components THEN Range(components[s]) ELSE {}

RECURSIVE Closure(_)
Closure(S) ==
  LET N == S \cup UNION {DepsOf(s) : s \in S}
  IN IF N = S THEN S ELSE Closure(N)

\* the slug and everything it transitively names
Reachable(s) == Closure({s})

\* s reaches itself through at least one internal-dependency edge
OnCycle(s) == s \in Closure(DepsOf(s))

Acyclic == \A s \in Slugs : ~OnCycle(s)

ReachesCycle(s) == \E t \in Reachable(s) : OnCycle(t)

\* every slug the traversal can meet is a key of the component map
AllPresent(s) == Reachable(s) \subseteq DOMAIN components

Returned == rpc \in {"ok", "notfound"}

NoDuplicates(list) ==
  \A i, j \in 1..Len(list) : list[i] = list[j] => i = j

DepsBeforeDependents(list) ==
  \A i \in 1..Len(list) :
    \A d \in DepsOf(list[i]) : \E j \in 1..(i - 1) : list[j] = d

\* C1: for a component map without an internal-dependency cycle and a
\* requested slug whose dependencies are all in the map, the resolver returns
\* Ok with a list in which every internal dependency appears strictly before
\* every slug that declares it, the requested slug is last, and the list holds
\* exactly the requested slug and its transitive internal dependencies, each
\* once.  (A slug absent from the map is the ComponentNotFound error.)
C1_TopologicalOrder ==
  (Returned /\ Acyclic /\ AllPresent(requested)) =>
     /\ rpc = "ok"
     /\ DepsBeforeDependents(ordered)
     /\ Last(ordered) = requested
     /\ Range(ordered) = Reachable(requested)
     /\ NoDuplicates(ordered)

\* a chain a -> b -> c was resolved: the list holds a dependency of a dependency
C1_Witness ==
  /\ rpc = "ok"
  /\ Acyclic
  /\ Len(ordered) = 3
  /\ Len(components[requested]) = 1
  /\ Last(ordered) = requested

CyclicRequest == ReachesCycle(requested) /\ AllPresent(requested)

CycleResolved ==
  /\ rpc = "ok"
  /\ stack = <<>>
  /\ Range(ordered) = Reachable(requested)
  /\ NoDuplicates(ordered)

\* C2: when the requested slug lies on or reaches an internal-dependency cycle
\* (A -> B -> A, a self-loop), resolution terminates, returns Ok, and the
\* returned list holds each reachable slug exactly once.
C2_CycleTerminates == CyclicRequest ~> CycleResolved

\* A -> B -> A was resolved from A
C2_Witness ==
  /\ rpc = "ok"
  /\ OnCycle(requested)
  /\ requested \notin DepsOf(requested)
  /\ Len(ordered) >= 2

\* a self-loop was resolved
C2_WitnessSelfLoop ==
  /\ rpc = "ok"
  /\ requested \in DepsOf(requested)

(***************************************************************************)
(* Claims about the run of `add`                                           *)
(***************************************************************************)
RunReturned == apc = "returned"

\* the planned files that existed when the run started
ExistingAtStart == {i \in 1..Len(files) : pre_run[Inode(files[i])] # Absent}

AllEntries == 1..Len(written_files)

\* C3: after any sequence of live-mode writes (component files and the barrel,
\* several writes to one path included) followed by a rollback without I/O
\* failure, every path that existed before the run holds its pre-run content
\* and every path that did not exist is absent.
C3_RollbackRestores ==
  (RunReturned /\ rb_result = "ok") => disk = pre_run

\* rolled back: a file written twice in the run and a pre-existing file
C3_Witness ==
  /\ RunReturned
  /\ rb_result = "ok"
  /\ writes > Len(written_files)
  /\ \E i \in AllEntries : written_files[i].previous_contents = Old
  /\ \E i \in AllEntries : written_files[i].previous_contents = Absent

\* C4: in a live run, an error after the first successful file write makes
\* rollback attempt every change-log entry before the run returns, and the
\* run returns the original error.
C4_RollbackEveryEntry ==
  (RunReturned /\ ~dry_run /\ error # "none" /\ writes >= 1) =>
     /\ rb_attempted = AllEntries
     /\ outcome = "Err"
     /\ returned_error = error

Declined == "cancelled" \in reported

\* C6: in live mode with a planned file that already exists, nothing is written
\* before the overwrite prompt is answered; a declined prompt ends the run as
\* NoOp with no file written, an empty change log, no barrel update and no
\* install.
C6_ConfirmBeforeWrite ==
  (~dry_run /\ apc # "idle" /\ ExistingAtStart # {}) =>
     /\ apc \in {"check", "confirm"} =>
          (disk = pre_run /\ writes = 0 /\ written_files = <<>>)
     /\ Declined =>
          /\ RunReturned
          /\ outcome = "NoOp"
          /\ disk = pre_run
          /\ writes = 0
          /\ written_files = <<>>
          /\ updates = 0
          /\ executed = 0

\* the prompt was declined in a run that had files, a barrel and installs ahead
C6_Witness ==
  /\ ~dry_run
  /\ Declined
  /\ RunReturned
  /\ Len(files) >= 2
  /\ barrel # NoBarrel
  /\ plans > 0

\* C7: a failing install plan in a live run is non-fatal: the run completes
\* and the files written stay on disk, no rollback is triggered.
C7_InstallFailureNonFatal ==
  (RunReturned /\ ~dry_run /\ error = "install" /\ writes >= 1) =>
     /\ outcome = "Completed"
     /\ rb_attempted = {}
     /\ \A i \in AllEntries : disk[Inode(written_files[i].path)] # Absent

\* C8: a failure to restore or remove one change-log entry does not stop the
\* rollback: every entry is still processed, and the failure is reported.
C8_RollbackBestEffort ==
  (RunReturned /\ rb_result = "err") =>
     /\ rb_attempted = AllEntries
     /\ "rollback_failed" \in reported


(***************************************************************************)
(* Claims about dependency reconciliation                                  *)
(***************************************************************************)
Checked == dpc = "done"

\* the nearest node_modules entry of the package, base before parent
Nearest ==
  IF node_modules["base"].exists THEN node_modules["base"]
  ELSE node_modules["parent"]

\* the optional version string `o` matches the required semver range
RangeMatch(o) ==
  /\ o # None
  /\ parse_version(Get(o)) # None
  /\ parse_version_req(required_range) # None
  /\ matches(Get(parse_version_req(required_range)), Get(parse_version(Get(o))))

\* the major of the optional version string `o` exceeds the required major
MajorGreater(o) ==
  /\ o # None
  /\ extract_major(Get(o)) # None
  /\ extract_major(required_range) # None
  /\ Get(extract_major(Get(o))) > Get(extract_major(required_range))

Satisfies(o) == RangeMatch(o) \/ MajorGreater(o)

\* the version the check resolves for an installed package
ResolvedSpec ==
  IF Nearest.version # None THEN Nearest.version ELSE declared_spec

\* C9: a dependency whose version is found is satisfied (no issue) exactly when
\* the resolved version matches the required range or the resolved major is
\* strictly greater than the required major; an equal major that fails the
\* range is an issue.
C9_SatisfiedIffRangeOrHigherMajor ==
  (Checked /\ Nearest.exists /\ ResolvedSpec # None) =>
     (issues = <<>> <=> Satisfies(ResolvedSpec))

\* required ^0.1.0 with installed 1.0.0: outside the range, satisfied by major
C9_Witness ==
  /\ Checked
  /\ Nearest.exists
  /\ Nearest.version # None
  /\ required_range.op = "^"
  /\ ~RangeMatch(Nearest.version)
  /\ MajorGreater(Nearest.version)
  /\ issues = <<>>

\* required ^1.1.0 with installed 1.0.0: equal major, outside the range
C9_WitnessEqualMajor ==
  /\ Checked
  /\ Nearest.exists
  /\ Nearest.version # None
  /\ required_range.op = "^"
  /\ extract_major(Get(Nearest.version)) = extract_major(required_range)
  /\ ~RangeMatch(Nearest.version)
  /\ Len(issues) = 1
  /\ issues[1].reason = "Outdated"

\* C10 as stated: the installed version of the nearest node_modules is
\* preferred, and a dependency with no node_modules entry whose declared
\* package.json version satisfies the required range (or has a strictly greater
\* major) is classified satisfied.
C10_DeclaredFallbackSatisfied ==
  /\ (Checked /\ Nearest.exists /\ Nearest.version # None) =>
        (issues = <<>> <=> Satisfies(Nearest.version))
  /\ (Checked /\ ~Nearest.exists /\ Satisfies(declared_spec)) => issues = <<>>

\* C10, amended: the installed version of the nearest node_modules is
\* preferred; the declared package.json version is used only when the
\* node_modules entry exists but its version cannot be read; a dependency with
\* no node_modules entry is an issue whatever its declared version (Outdated if
\* declared, Missing if not), Yarn PnP aside.
C10_FallbackOnlyForUnreadableEntry ==
  Checked =>
     /\ (Nearest.exists /\ Nearest.version # None) =>
           (issues = <<>> <=> Satisfies(Nearest.version))
     /\ (Nearest.exists /\ Nearest.version = None) =>
           (issues = <<>> <=> Satisfies(declared_spec))
     /\ (~Nearest.exists /\ ~uses_yarn_pnp) =>
           /\ Len(issues) = 1
           /\ issues[1].reason =
                (IF declared_spec # None THEN "Outdated" ELSE "Missing")

\* no node_modules entry, a declared version inside the required range, and
\* the dependency is reported all the same
C10_Witness ==
  /\ Checked
  /\ ~Nearest.exists
  /\ ~uses_yarn_pnp
  /\ RangeMatch(declared_spec)
  /\ Len(issues) = 1
  /\ issues[1].reason = "Outdated"

\* an entry in the parent node_modules only, its version unreadable: the
\* declared version decides
C10_WitnessFallback ==
  /\ Checked
  /\ ~node_modules["base"].exists
  /\ Nearest.exists
  /\ Nearest.version = None
  /\ Satisfies(declared_spec)
  /\ issues = <<>>

\* the declared spec's version lies in the required range
DeclaredInRequired ==
  /\ declared_spec # None
  /\ extract_version_from_spec(Get(declared_spec)) # None
  /\ parse_version_req(required_range) # None
  /\ matches(Get(parse_version_req(required_range)),
             Get(extract_version_from_spec(Get(declared_spec))))

\* the required range's version lies in the declared range
RequiredInDeclared ==
  /\ declared_spec # None
  /\ extract_version_from_spec(required_range) # None
  /\ parse_version_req(Get(declared_spec)) # None
  /\ matches(Get(parse_version_req(Get(declared_spec))),
             Get(extract_version_from_spec(required_range)))

\* C11: a dependency with no node_modules entry that is declared in
\* package.json raises no issue exactly when Yarn PnP is detected and the
\* declared version matches the required range or the required version matches
\* the declared range; with neither direction, or without PnP, it is an issue.
C11_PnpDeclaredSymmetric ==
  (Checked /\ ~Nearest.exists /\ declared_spec # None) =>
     (issues = <<>> <=>
        (uses_yarn_pnp /\ (DeclaredInRequired \/ RequiredInDeclared)))

\* PnP, required ^1.1.0, declared ^1.0.0: only the required version matches
\* the declared range, and no issue is raised
C11_Witness ==
  /\ Checked
  /\ ~Nearest.exists
  /\ uses_yarn_pnp
  /\ ~DeclaredInRequired
  /\ RequiredInDeclared
  /\ issues = <<>>

\* PnP with neither direction matching: the issue is raised
C11_WitnessNeither ==
  /\ Checked
  /\ ~Nearest.exists
  /\ uses_yarn_pnp
  /\ declared_spec # None
  /\ HasNumber(Get(declared_spec))
  /\ ~DeclaredInRequired
  /\ ~RequiredInDeclared
  /\ Len(issues) = 1

\* the version the check parses out of the resolved spec, if any
ResolvedVersion ==
  IF ResolvedSpec = None THEN None ELSE parse_version(Get(ResolvedSpec))

ReasonOf(i) == issues[i].reason

\* C12 as stated: Missing exactly when the dependency is neither installed nor
\* declared, Outdated exactly when a version was resolved and it fails the
\* required range, Unknown exactly when it is installed or declared and no
\* version could be resolved at all; no dependency gets two issues.
C12_ReasonsAsStated ==
  Checked =>
     /\ Len(issues) <= 1
     /\ \A i \in 1..Len(issues) :
          /\ ReasonOf(i) = "Missing" <=>
               (~Nearest.exists /\ declared_spec = None)
          /\ ReasonOf(i) = "Outdated" <=>
               (ResolvedVersion # None /\ ~RangeMatch(ResolvedSpec))
          /\ ReasonOf(i) = "Unknown" <=>
               /\ Nearest.exists \/ declared_spec # None
               /\ ResolvedVersion = None

\* C12, amended: Missing exactly when the package has no node_modules entry
\* and is not declared; Outdated exactly when it has no node_modules entry but
\* is declared, or has an entry and the version resolved for it fails the
\* required range; Unknown exactly when it has an entry and no version could
\* be resolved for it; no dependency gets two issues.
C12_ReasonsByEntry ==
  Checked =>
     /\ Len(issues) <= 1
     /\ \A i \in 1..Len(issues) :
          /\ ReasonOf(i) = "Missing" <=>
               (~Nearest.exists /\ declared_spec = None)
          /\ ReasonOf(i) = "Outdated" <=>
               \/ ~Nearest.exists /\ declared_spec # None
               \/ /\ Nearest.exists
                  /\ ResolvedVersion # None
                  /\ ~RangeMatch(ResolvedSpec)
          /\ ReasonOf(i) = "Unknown" <=>
               (Nearest.exists /\ ResolvedVersion = None)

\* no node_modules entry and a declared dist-tag: nothing can be resolved, and
\* the reason is Outdated
C12_Witness ==
  /\ Checked
  /\ ~Nearest.exists
  /\ declared_spec = Some(Tag)
  /\ Len(issues) = 1
  /\ ReasonOf(1) = "Outdated"

\* an entry whose version cannot be read and no declaration: Unknown
C12_WitnessUnknown ==
  /\ Checked
  /\ Nearest.exists
  /\ ResolvedVersion = None
  /\ Len(issues) = 1
  /\ ReasonOf(1) = "Unknown"

(***************************************************************************)
(* Claims about install planning                                           *)
(***************************************************************************)
Planned == ppc = "done"

\* the manager the plan is for: the configured one, else the one detected in
\* the repository root, else npm
Manager ==
  IF context.package_manager # None THEN Get(context.package_manager)
  ELSE IF lockfiles \cap {"pnpm"} # {} THEN "pnpm"
  ELSE IF lockfiles \cap {"yarn"} # {} THEN "yarn"
  ELSE IF lockfiles \cap {"bun"} # {} THEN "bun"
  ELSE IF lockfiles \cap {"npm"} # {} THEN "npm"
  ELSE IF package_manager_field # None THEN Get(package_manager_field)
  ELSE "npm"

\* the name@range pairs of the map
TokenSet == {<<n, "@", dependencies[n]>> : n \in DOMAIN dependencies}

\* program followed by args
CommandLine == <<Word(Get(plan).program)>> \o Get(plan).args

Tokens == Get(plan).dependencies

PackageKnown == context.workspace_package # None
RootKnown == context.workspace_root # None
Pkg == Word(Get(context.workspace_package))
Root == Get(context.workspace_root)
Cwd == Get(plan).working_directory

\* C13: an empty map yields no plan; a non-empty map yields the command of
\* the detected manager: npm `install <tokens> [--workspace <pkg>]`; yarn
\* `workspace <pkg> add <tokens>` with a package name, else `add <tokens>` run
\* in the workspace root; pnpm `add --filter <pkg> <tokens>` with a package
\* name, else `add <tokens>` run in the workspace root; bun
\* `add <tokens> --cwd <root>`; the tokens are exactly the name@range pairs of
\* the map.  (A context without a workspace root runs in the repository root
\* and, under bun, carries no --cwd.)
C13_CommandShape ==
  Planned =>
    IF DOMAIN dependencies = {} THEN plan = None
    ELSE /\ plan # None
         /\ Range(Tokens) = TokenSet
         /\ Len(Tokens) = Cardinality(TokenSet)
         /\ Manager = "npm" =>
              CommandLine =
                <<Word("npm"), Word("install")>> \o Tokens
                  \o (IF PackageKnown THEN <<Word("--workspace"), Pkg>>
                                      ELSE <<>>)
         /\ (Manager = "yarn" /\ PackageKnown) =>
              CommandLine =
                <<Word("yarn"), Word("workspace"), Pkg, Word("add")>> \o Tokens
         /\ (Manager = "yarn" /\ ~PackageKnown) =>
              /\ CommandLine = <<Word("yarn"), Word("add")>> \o Tokens
              /\ Cwd = (IF RootKnown THEN Root ELSE context.repo_root)
         /\ (Manager = "pnpm" /\ PackageKnown) =>
              CommandLine =
                <<Word("pnpm"), Word("add"), Word("--filter"), Pkg>> \o Tokens
         /\ (Manager = "pnpm" /\ ~PackageKnown) =>
              /\ CommandLine = <<Word("pnpm"), Word("add")>> \o Tokens
              /\ Cwd = (IF RootKnown THEN Root ELSE context.repo_root)
         /\ Manager = "bun" =>
              CommandLine =
                <<Word("bun"), Word("add")>> \o Tokens
                  \o (IF RootKnown THEN <<Word("--cwd"), Word(Root)>>
                                   ELSE <<>>)

\* clsx ^2.0.0 under npm, no workspace package: `npm install clsx@^2.0.0`
C13_Witness ==
  /\ Planned
  /\ plan # None
  /\ DOMAIN dependencies = {"clsx"}
  /\ CommandLine = <<<<"npm">>, <<"install">>, <<"clsx", "@", "^2.0.0">>>>

\* two dependencies under yarn with a workspace package, found by yarn.lock
C13_WitnessYarnWorkspace ==
  /\ Planned
  /\ plan # None
  /\ context.package_manager = None
  /\ Cardinality(DOMAIN dependencies) = 2
  /\ PackageKnown
  /\ Get(plan).program = "yarn"
  /\ Get(plan).args[1] = <<"workspace">>


(***************************************************************************)
(* Claims about the registry cache                                         *)
(***************************************************************************)
FetchReturned == fpc = "done"

HadCopy == pre_fetch.entry # None
WithinTtl == pre_fetch.elapsed <= ttl
WithinMaxAge == pre_fetch.elapsed <= MAX_CACHE_AGE
CacheUntouched ==
  cache_entry = pre_fetch.entry /\ sidecar = pre_fetch.sidecar
CachePurged == cache_entry = None /\ sidecar = None

\* the validators stored in the sidecar when the call started
StoredEtag ==
  IF pre_fetch.sidecar = None THEN None ELSE Get(pre_fetch.sidecar).etag
StoredLastModified ==
  IF pre_fetch.sidecar = None THEN None
  ELSE Get(pre_fetch.sidecar).last_modified

\* C14 as stated: with a cache entry whose age is within the TTL, no HTTP
\* request is sent and the cached body is returned.
C14_FreshWithinTtl ==
  (fpc # "start" /\ HadCopy /\ WithinTtl) =>
     /\ requests_sent = 0
     /\ FetchReturned
     /\ fetched = <<"Ok", Get(pre_fetch.entry)>>

\* C14, amended: with a cache entry whose age is within the TTL and within the
\* maximum cache age, no HTTP request is sent and the cached body is returned,
\* the cache left as it was.
C14_FreshWithinTtlAndMaxAge ==
  (fpc # "start" /\ HadCopy /\ WithinTtl /\ WithinMaxAge) =>
     /\ requests_sent = 0
     /\ request = None
     /\ FetchReturned
     /\ fetched = <<"Ok", Get(pre_fetch.entry)>>
     /\ CacheUntouched

\* an entry of age 1 under a TTL of 1 was served from the cache
C14_Witness ==
  /\ FetchReturned
  /\ HadCopy
  /\ pre_fetch.elapsed = 1
  /\ ttl = 1
  /\ requests_sent = 0
  /\ fetched = <<"Ok", "cached body">>

\* an entry within a long TTL but past the maximum age was not served
C14_WitnessPastMaxAge ==
  /\ fpc = "sent"
  /\ HadCopy
  /\ WithinTtl
  /\ ~WithinMaxAge
  /\ requests_sent = 1

Stale == HadCopy /\ ~WithinTtl
Got304 == response # None /\ Get(response).status = 304

\* C15 as stated: with a stale cached copy the request carries the stored ETag
\* as If-None-Match and the stored Last-Modified as If-Modified-Since; on a 304
\* the stale body is returned and body and validators stay as they were.
C15_ConditionalRevalidation ==
  (fpc \in {"sent", "done"} /\ Stale) =>
     /\ request = Some([if_none_match |-> StoredEtag,
                        if_modified_since |-> StoredLastModified])
     /\ (FetchReturned /\ Got304) =>
          /\ fetched = <<"Ok", Get(pre_fetch.entry)>>
          /\ CacheUntouched

\* C15, amended: the same for a stale copy that is not older than the maximum
\* cache age; a copy older than that is deleted together with its sidecar, the
\* request carries no validator and a 304 ends in a Network error.
C15_ConditionalRevalidationWithinMaxAge ==
  (fpc \in {"sent", "done"} /\ Stale) =>
     /\ WithinMaxAge =>
          /\ request = Some([if_none_match |-> StoredEtag,
                             if_modified_since |-> StoredLastModified])
          /\ (FetchReturned /\ Got304) =>
               /\ fetched = <<"Ok", Get(pre_fetch.entry)>>
               /\ CacheUntouched
     /\ ~WithinMaxAge =>
          /\ request = Some([if_none_match |-> None,
                             if_modified_since |-> None])
          /\ (FetchReturned /\ Got304) =>
               /\ fetched = <<"Err", "Network">>
               /\ CachePurged

\* a stale copy with both validators stored was revalidated by a 304
C15_Witness ==
  /\ FetchReturned
  /\ Stale
  /\ WithinMaxAge
  /\ Got304
  /\ StoredEtag # None
  /\ StoredLastModified # None
  /\ Get(request).if_none_match = StoredEtag
  /\ fetched = <<"Ok", "cached body">>

\* a copy past the maximum age was purged before the request
C15_WitnessPurged ==
  /\ FetchReturned
  /\ Stale
  /\ ~WithinMaxAge
  /\ pre_fetch.sidecar # None
  /\ Got304
  /\ CachePurged

\* the GET was answered 2xx and its body was read
Fetched2xx ==
  /\ response # None
  /\ Get(response).kind = "status"
  /\ Get(response).status >= 200
  /\ Get(response).status < 300
  /\ Get(response).text # None

\* C16: after a successful (2xx) fetch the cache entry holds exactly the new
\* body and the sidecar exactly the validators of that response: no old ETag or
\* Last-Modified survives, and with no validator in the response there is no
\* sidecar.
C16_SuccessReplacesBodyAndValidators ==
  (FetchReturned /\ Fetched2xx) =>
     /\ cache_entry = Get(response).text
     /\ fetched = <<"Ok", Get(Get(response).text)>>
     /\ (Get(response).etag = None /\ Get(response).last_modified = None) =>
          sidecar = None
     /\ (Get(response).etag # None \/ Get(response).last_modified # None) =>
          sidecar = Some([etag |-> Get(response).etag,
                          last_modified |-> Get(response).last_modified])

\* a sidecar with ETag and Last-Modified was replaced by one with the new ETag
\* only
C16_Witness ==
  /\ FetchReturned
  /\ Fetched2xx
  /\ StoredEtag # None
  /\ StoredLastModified # None
  /\ Get(response).etag # None
  /\ Get(response).last_modified = None
  /\ Get(sidecar).last_modified = None

\* a response without validators removed the sidecar
C16_WitnessRemoved ==
  /\ FetchReturned
  /\ Fetched2xx
  /\ pre_fetch.sidecar # None
  /\ HadCopy
  /\ WithinMaxAge
  /\ Get(response).etag = None
  /\ Get(response).last_modified = None
  /\ sidecar = None

\* the GET failed: a send error, a failure status other than 304, or a body
\* that could not be read
FetchFailed ==
  /\ response # None
  /\ \/ Get(response).kind = "error"
     \/ /\ Get(response).kind = "status"
        /\ Get(response).status # 304
        /\ ~(Get(response).status >= 200 /\ Get(response).status < 300)
     \/ /\ Get(response).kind = "status"
        /\ Get(response).status = 200
        /\ Get(response).text = None

\* C17 as stated: on a network error or a non-success, non-304 status the
\* stale cached body is returned whenever a cached copy exists, whatever its
\* age, a Network error only when none exists, and the cache entry is not
\* modified.
C17_StaleOnError ==
  (FetchReturned /\ FetchFailed) =>
     /\ HadCopy => fetched = <<"Ok", Get(pre_fetch.entry)>>
     /\ ~HadCopy => fetched = <<"Err", "Network">>
     /\ CacheUntouched

\* C17, amended: the stale cached body is returned whenever a cached copy not
\* older than the maximum cache age exists, and the cache is then not
\* modified; a copy older than that is deleted with its sidecar by the call and
\* the Network error is returned, as it is when no copy exists.
C17_StaleOnErrorWithinMaxAge ==
  (FetchReturned /\ FetchFailed) =>
     /\ (HadCopy /\ WithinMaxAge) =>
          /\ fetched = <<"Ok", Get(pre_fetch.entry)>>
          /\ CacheUntouched
     /\ (HadCopy /\ ~WithinMaxAge) =>
          /\ fetched = <<"Err", "Network">>
          /\ CachePurged
     /\ ~HadCopy =>
          /\ fetched = <<"Err", "Network">>
          /\ CacheUntouched

\* a copy past its TTL was served after a 500
C17_Witness ==
  /\ FetchReturned
  /\ Stale
  /\ WithinMaxAge
  /\ Get(response).status = 500
  /\ fetched = <<"Ok", "cached body">>

\* a copy past the maximum age was lost to a send error
C17_WitnessPurged ==
  /\ FetchReturned
  /\ HadCopy
  /\ ~WithinMaxAge
  /\ Get(response).kind = "error"
  /\ fetched = <<"Err", "Network">>
  /\ CachePurged


(***************************************************************************)
(* Claims about workspace targeting                                        *)
(***************************************************************************)
\* the loop has dealt with the first file of the component
FirstFileDone == file_idx >= 2 \/ gpc = "failed"

FirstTarget == component_files[1]

\* two strings equal up to the case of their letters
SameIgnoringCase(a, b) == a.base = b.base

Min(S) == CHOOSE i \in S : \A j \in S : i <= j

PackageMatches ==
  {i \in 1..Len(handles) :
     /\ handles[i].package_name # None
     /\ SameIgnoringCase(Get(handles[i].package_name), Get(FirstTarget))}

RootMatches ==
  {i \in 1..Len(handles) :
     SameIgnoringCase(handles[i].root_rel, Get(FirstTarget))}

\* the kinds the target names as a keyword
KeywordKinds ==
  LET word == Get(FirstTarget).base
  IN IF word = "app" THEN {"App"}
     ELSE IF word \in {"ui", "shared"} THEN {"Ui"}
     ELSE IF word \in {"library", "lib"} THEN {"Library"}
     ELSE {}

KindMatches == {i \in 1..Len(handles) : handles[i].kind \in KeywordKinds}

ChosenIs(i) ==
  /\ gpc # "failed"
  /\ pending_files[1] = handles[i].id
  /\ gather_error = None

\* C18: an explicit target is compared case-insensitively and selects the
\* first handle whose package name equals it, failing that the first handle
\* whose root-relative path equals it, failing that the first handle of the
\* kind its keyword names; with no match the selection fails with an error
\* naming the target and no workspace is selected.
C18_ExplicitTargetOrder ==
  (gpc # "idle" /\ Len(component_files) >= 1 /\ FirstTarget # None
     /\ FirstFileDone) =>
     IF PackageMatches # {} THEN ChosenIs(Min(PackageMatches))
     ELSE IF RootMatches # {} THEN ChosenIs(Min(RootMatches))
     ELSE IF KindMatches # {} THEN ChosenIs(Min(KindMatches))
     ELSE /\ gpc = "failed"
          /\ gather_error = FirstTarget
          /\ pending_files = <<>>
          /\ workspace_ids_for_component = {}
          /\ preferred_target = None

\* target `Lib`: a package named lib on one handle, the root `Lib` on another
\* and a Library workspace; the package name decided
C18_Witness ==
  /\ gpc = "done"
  /\ FirstTarget = Some(Mixed("lib"))
  /\ PackageMatches # {}
  /\ RootMatches # {}
  /\ Min(PackageMatches) # Min(RootMatches)
  /\ pending_files = <<handles[Min(PackageMatches)].id>>

\* target `shared` selected the first Ui workspace, a linked one
C18_WitnessKeyword ==
  /\ gpc = "done"
  /\ FirstTarget = Some(Lower("shared"))
  /\ Len(handles) >= 2
  /\ handles[1].kind # "Ui"
  /\ pending_files = <<handles[2].id>>

\* target `docs` matched nothing
C18_WitnessError ==
  /\ gpc = "failed"
  /\ gather_error = Some(Lower("docs"))

UiHandles == {i \in 1..Len(handles) : handles[i].kind = "Ui"}

\* C19: a file without a target goes to the first linked Ui workspace when the
\* primary workspace is an App and the context has a Ui workspace, and to the
\* primary workspace otherwise; one handle is chosen and the selection never
\* fails.
C19_DefaultTargetPrefersUi ==
  (gpc # "idle" /\ Len(component_files) >= 1 /\ FirstTarget = None
     /\ FirstFileDone) =>
     /\ gpc # "failed"
     /\ IF handles[1].kind = "App" /\ UiHandles # {}
          THEN /\ Min(UiHandles) > 1
               /\ pending_files[1] = handles[Min(UiHandles)].id
          ELSE pending_files[1] = handles[1].id

\* primary App with a linked Ui workspace: the file went to the Ui workspace
C19_Witness ==
  /\ gpc = "done"
  /\ Len(component_files) = 1
  /\ FirstTarget = None
  /\ Len(handles) >= 2
  /\ handles[1].kind = "App"
  /\ pending_files = <<handles[2].id>>

\* primary Library with a linked Ui workspace: the file stayed in the primary
C19_WitnessPrimary ==
  /\ gpc = "done"
  /\ Len(component_files) = 1
  /\ FirstTarget = None
  /\ handles[1].kind = "Library"
  /\ UiHandles # {}
  /\ pending_files = <<handles[1].id>>

\* the kind of the workspace with the id
KindOfId(id) ==
  LET i == CHOOSE j \in 1..Len(handles) : handles[j].id = id
  IN handles[i].kind

TargetedKinds == {KindOfId(id) : id \in Range(pending_files)}

\* C20: the dependencies of a component go to exactly one of the workspaces
\* its files were targeted to: a Ui workspace if any of them is Ui, otherwise a
\* Library workspace if any is Library, otherwise the workspace of the
\* component's first file.
C20_DependencyTargetPriority ==
  (gpc = "done" /\ pending_files # <<>>) =>
     /\ preferred_target # None
     /\ Get(preferred_target) \in Range(pending_files)
     /\ IF "Ui" \in TargetedKinds THEN KindOfId(Get(preferred_target)) = "Ui"
        ELSE IF "Library" \in TargetedKinds
          THEN KindOfId(Get(preferred_target)) = "Library"
        ELSE Get(preferred_target) = pending_files[1]


(***************************************************************************)
(* The Import Path Normalizer (crates/cli/src/commands/add.rs).  A string  *)
(* is a sequence of tokens: "/", ".", "@", "~" and whole path names.  The  *)
(* content is one quoted import path; quotes are kept by the replacement.  *)
(***************************************************************************)
\* the most path segments of the fetched import path
MaxSegments == 3

\* path segments of fetched import paths; "" gives a doubled or leading '/'
Segments == {"", ".", "app", "src", "components", "x"}

RECURSIVE JoinSegments(_)
JoinSegments(segs) ==
  IF Len(segs) = 0 THEN <<>>
  ELSE (IF Head(segs) = "" THEN <<>> ELSE <<Head(segs)>>)
       \o (IF Len(segs) = 1 THEN <<>>
           ELSE <<"/">> \o JoinSegments(Tail(segs)))

\* fetched file contents: a quoted import of the form `@/<rest>` or `~/<rest>`
Contents ==
  {[open |-> "'", text |-> <<m, "/">> \o JoinSegments(segs), close |-> "'"] :
     m \in {"@", "~"},
     segs \in SeqsUpTo(Segments, MaxSegments) \ {<<>>}}

\* destination workspaces: alias prefix, component import alias and the
\* filesystem path of the components alias
NormalizerHandles ==
  {[alias_prefix |-> p, component_import_alias |-> c[1],
    components_path |-> c[2]] :
     p \in {<<"@">>, <<"~">>, <<"@", "/">>},
     c \in {<<None, <<"components">>>>,
            <<Some(<<"@", "/", "x">>), <<"components">>>>,
            <<Some(<<"@", "/", "components", "/", "x">>),
              <<"src", "/", "components", "/", "x">>>>}}

starts_with(s, pat) == Len(s) >= Len(pat) /\ SubSeq(s, 1, Len(pat)) = pat

ends_with(s, pat) ==
  Len(s) >= Len(pat) /\ SubSeq(s, Len(s) - Len(pat) + 1, Len(s)) = pat

strip_prefix(s, pat) ==
  IF starts_with(s, pat) THEN Some(SubSeq(s, Len(pat) + 1, Len(s))) ELSE None

RECURSIVE trim_start_matches(_, _)
trim_start_matches(s, pat) ==
  IF starts_with(s, pat)
  THEN trim_start_matches(SubSeq(s, Len(pat) + 1, Len(s)), pat)
  ELSE s

RECURSIVE trim_end_matches(_, _)
trim_end_matches(s, pat) ==
  IF ends_with(s, pat)
  THEN trim_end_matches(SubSeq(s, 1, Len(s) - Len(pat)), pat)
  ELSE s

\* the regular expression (['"])@/([^'"\n]+)(['"]) on one quoted string
IMPORT_NORMALIZE_RE(text) == starts_with(text, <<"@", "/">>) /\ Len(text) >= 3

normalize_import_path(import_path) ==
  LET path == trim_start_matches(
                trim_start_matches(import_path, <<".", "/">>), <<"/">>)
  IN IF strip_prefix(path, <<"app", "/">>) # None
     THEN Get(strip_prefix(path, <<"app", "/">>))
     ELSE IF strip_prefix(path, <<"src", "/">>) # None
     THEN Get(strip_prefix(path, <<"src", "/">>))
     ELSE path

join_import_path(prefix, import_path) ==
  LET sanitized_prefix == trim_end_matches(prefix, <<"/">>)
  IN IF import_path = <<>> THEN sanitized_prefix
     ELSE sanitized_prefix \o <<"/">>
          \o trim_start_matches(import_path, <<"/">>)

normalize_alias_path(path) ==
  trim_start_matches(
    trim_start_matches(
      trim_start_matches(
        trim_start_matches(path, <<".", "/">>), <<"/">>),
      <<"src", "/">>),
    <<"app", "/">>)

component_relative_path(handle, path) ==
  LET norm == trim_start_matches(
                trim_start_matches(path, <<".", "/">>), <<"/">>)
      stripped == strip_prefix(norm, <<"components", "/">>)
      alias_suffix == normalize_alias_path(handle.components_path)
      suffix == trim_start_matches(
                  trim_start_matches(alias_suffix, <<"components", "/">>),
                  <<"/">>)
  IN IF norm = <<"components">> THEN Some(<<>>)
     ELSE IF stripped = None THEN None
     ELSE IF suffix # <<>> /\ strip_prefix(Get(stripped), suffix) # None
     THEN Some(trim_start_matches(
                 Get(strip_prefix(Get(stripped), suffix)), <<"/">>))
     ELSE stripped

\* the replacement of one match: the text written between the quotes
ReplaceImport(text, handle) ==
  LET alias_prefix == trim_end_matches(handle.alias_prefix, <<"/">>)
      component_alias ==
        IF handle.component_import_alias = None THEN None
        ELSE Some(trim_end_matches(Get(handle.component_import_alias),
                                   <<"/">>))
      path == normalize_import_path(SubSeq(text, 3, Len(text)))
      relative == component_relative_path(handle, path)
  IN IF component_alias # None /\ relative # None
     THEN (IF Get(relative) = <<>> THEN Get(component_alias)
           ELSE join_import_path(Get(component_alias), Get(relative)))
     ELSE join_import_path(alias_prefix, path)

normalize_component_content(c, handle) ==
  IF IMPORT_NORMALIZE_RE(c.text)
  THEN [c EXCEPT !.text = ReplaceImport(c.text, handle)]
  ELSE c

\* one run of the normalizer: on the fetched content, then on its own output
normalize_pass ==
  /\ content # None
  /\ Len(normalized_content) < 2
  /\ normalized_content' =
       Append(normalized_content,
              normalize_component_content(
                IF normalized_content = <<>> THEN Get(content) ELSE Last(normalized_content),
                nhandle))
  /\ UNCHANGED <<content, nhandle>>
  /\ UNCHANGED <<rvars, avars, dvars, pvars, cvars, wvars, bvars, kvars, xvars, hvars, tvars, ivars>>

NextNormalize == normalize_pass

(***************************************************************************)
(* Claims about the Import Path Normalizer                                 *)
(***************************************************************************)
NormalizedTwice == Len(normalized_content) = 2

\* C21: the Import Path Normalizer is idempotent: for every content and
\* every destination workspace, normalizing the already-normalized_content content
\* yields that same content, stacked prefixes (`@/app/src/x`) included
C21_NormalizerIdempotent ==
  NormalizedTwice => normalized_content[2] = normalized_content[1]


(***************************************************************************)
(* The Export Barrel Merger (crates/cli/src/commands/add.rs).  The text of *)
(* the barrel is a sequence of tokens: a newline, a run of hand-written    *)
(* text, the two markers, the comment of the block, or an export line      *)
(* `export { names } from "module";` with its names in written order.      *)
(***************************************************************************)
\* the most export lines in the block of the barrel before the first merge
MaxLines == 2

\* the merges made in one behaviour
MaxMerges == 2

Tok(kind) == [kind |-> kind, module |-> <<>>, names |-> <<>>]
NL == Tok("newline")
UserText == Tok("text")
EXPORT_BLOCK_START == Tok("start")
EXPORT_BLOCK_END == Tok("end")
EXPORT_BLOCK_COMMENT == Tok("comment")
ExportLine(module, names) ==
  [kind |-> "export", module |-> module, names |-> names]

\* module paths and export names, each listed in String order
Module(stem) == <<".", "/", stem>>
ModuleOrder == <<Module("button"), Module("card")>>
NameOrder == <<"Button", "Card">>
Rank(order, x) == CHOOSE i \in 1..Len(order) : order[i] = x

\* the component files of one workspace with the exports of their component
BarrelFiles ==
  {[stem |-> "button", ext |-> "tsx", exports |-> {"Button"}],
   [stem |-> "button", ext |-> "ts", exports |-> {"Card"}],
   [stem |-> "card", ext |-> "tsx", exports |-> {"Button", "Card"}],
   [stem |-> "card", ext |-> "tsx", exports |-> {}]}

\* export lines a barrel may hold before the first merge, hand-edited ones
\* (names out of order) included
WrittenLines ==
  {ExportLine(mod, names) :
     mod \in Range(ModuleOrder),
     names \in {<<"Button">>, <<"Card", "Button">>}}

RECURSIVE Flatten(_)
Flatten(ls) ==
  IF ls = <<>> THEN <<>> ELSE Head(ls) \o Flatten(Tail(ls))

\* a block as it stands in a file: markers, comment and one line per entry
BlockText(ls) ==
  <<EXPORT_BLOCK_START, NL, EXPORT_BLOCK_COMMENT, NL>>
  \o Flatten([i \in 1..Len(ls) |-> <<ls[i], NL>>])
  \o <<EXPORT_BLOCK_END>>

\* the barrel before the first merge: absent, empty, hand-written only, with
\* a start marker that is never closed, or with a block between any texts
BarrelTexts ==
  {<<>>, <<UserText>>, <<UserText, NL>>,
   <<UserText, NL, EXPORT_BLOCK_START, NL>>}
  \cup {b \o BlockText(ls) \o a :
          b \in {<<>>, <<UserText, NL>>},
          ls \in SeqsUpTo(WrittenLines, MaxLines),
          a \in {<<>>, <<NL>>, <<NL, UserText, NL>>}}

\* str::find: the first position at or after `from` holding the token, or 0
Find(text, tok, from) ==
  LET hits == {i \in from..Len(text) : text[i] = tok}
  IN IF hits = {} THEN 0 ELSE CHOOSE i \in hits : \A j \in hits : i <= j

\* str::lines: the runs of tokens between newlines
RECURSIVE lines(_)
lines(body) ==
  LET nl == Find(body, NL, 1)
  IN IF body = <<>> THEN <<>>
     ELSE IF nl = 0 THEN <<body>>
     ELSE <<SubSeq(body, 1, nl - 1)>>
          \o lines(SubSeq(body, nl + 1, Len(body)))

\* (module, names) of a line that is one export statement with names
parse_export_line(line) ==
  IF Len(line) = 1 /\ line[1].kind = "export" /\ line[1].names # <<>>
  THEN Some(<<line[1].module, line[1].names>>)
  ELSE None

\* a BTreeMap<String, BTreeSet<String>> is a function from its keys
parse_export_lines(body) ==
  LET parsed == {Get(parse_export_line(l)) :
                   l \in {x \in Range(lines(body)) :
                            parse_export_line(x) # None}}
  IN [mod \in {p[1] : p \in parsed} |->
        UNION {Range(p[2]) : p \in {q \in parsed : q[1] = mod}}]

EmptyMap == [mod \in {} |-> {}]

ExportPartition(before, after, existing_map) ==
  [before |-> before, after |-> after, existing_map |-> existing_map]

parse_existing_export_block(text) ==
  LET start_idx == Find(text, EXPORT_BLOCK_START, 1)
      end_idx == IF start_idx = 0 THEN 0
                 ELSE Find(text, EXPORT_BLOCK_END, start_idx)
  IN IF start_idx # 0 /\ end_idx # 0
     THEN ExportPartition(SubSeq(text, 1, start_idx - 1),
                          SubSeq(text, end_idx + 1, Len(text)),
                          parse_export_lines(
                            SubSeq(text, start_idx + 1, end_idx - 1)))
     ELSE ExportPartition(text, <<>>, EmptyMap)

\* the path relative to the barrel without its extension, after "./"
module_path_from_barrel(file) == Module(file.stem)

\* new_entries: the exports of every file with exports, keyed by module
NewEntries(workspace_files) ==
  LET with == {i \in 1..Len(workspace_files) :
                 workspace_files[i].exports # {}}
  IN [mod \in {module_path_from_barrel(workspace_files[i]) : i \in with} |->
        UNION {workspace_files[i].exports :
                 i \in {j \in with : module_path_from_barrel(workspace_files[j]) = mod}}]

\* a merge that keeps only the new names of a module already in the block
MergeReplacing(existing_map, new_entries) ==
  [mod \in DOMAIN existing_map \cup DOMAIN new_entries |->
     IF mod \in DOMAIN new_entries THEN new_entries[mod]
     ELSE existing_map[mod]]

\* merged_map: entry(module).or_insert_with(BTreeSet::new).extend(names)
MergedMap(existing_map, new_entries) ==
  [mod \in DOMAIN existing_map \cup DOMAIN new_entries |->
     (IF mod \in DOMAIN existing_map THEN existing_map[mod] ELSE {})
     \cup (IF mod \in DOMAIN new_entries THEN new_entries[mod] ELSE {})]

\* the members of S in the order of `order`
RECURSIVE Sorted(_, _)
Sorted(S, order) ==
  IF order = <<>> THEN <<>>
  ELSE (IF Head(order) \in S THEN <<Head(order)>> ELSE <<>>)
       \o Sorted(S, Tail(order))

format_export_line(module, names) == ExportLine(module, Sorted(names, NameOrder))

export_lines_from_map(map) ==
  LET mods == Sorted(DOMAIN map, ModuleOrder)
  IN [i \in 1..Len(mods) |-> format_export_line(mods[i], map[mods[i]])]

build_export_block(ls) ==
  <<EXPORT_BLOCK_START, NL, EXPORT_BLOCK_COMMENT, NL>>
  \o Flatten([i \in 1..Len(ls) |-> <<ls[i], NL>>])
  \o <<EXPORT_BLOCK_END, NL>>

\* new_content: before, the block and after, with the newlines the code adds
NewContent(partition, block) ==
  LET head == partition.before
              \o (IF partition.before # <<>> /\ Last(partition.before) # NL
                  THEN <<NL>> ELSE <<>>)
              \o block
      sep1 == IF Last(block) # NL THEN <<NL>> ELSE <<>>
      sep2 == IF Head(partition.after) # NL /\ Last(head \o sep1) # NL
              THEN <<NL>> ELSE <<>>
  IN IF partition.after # <<>>
     THEN head \o sep1 \o sep2 \o partition.after
     ELSE head

\* sync_component_exports for one workspace with a named-export barrel, live
merge_component_exports ==
  /\ bpc = "sync"
  /\ merges < MaxMerges
  /\ \E workspace_files \in {<<f>> : f \in BarrelFiles}
                          \cup (BarrelFiles \X BarrelFiles) :
       LET new_entries == NewEntries(workspace_files)
           existing_content == barrel_file
           partition ==
             IF existing_content = None THEN parse_existing_export_block(<<>>)
             ELSE parse_existing_export_block(Get(existing_content))
           merged_map == MergedMap(partition.existing_map, new_entries)
           block == build_export_block(export_lines_from_map(merged_map))
           skipped == new_entries = EmptyMap
                      \/ merged_map = partition.existing_map
       IN /\ barrel_file' = IF skipped THEN barrel_file
                            ELSE Some(NewContent(partition, block))
          /\ last_sync' = Some([prior |-> barrel_file,
                                files |-> workspace_files,
                                written |-> ~skipped])
  /\ merges' = merges + 1
  /\ UNCHANGED <<barrel_original, bpc>>
  /\ UNCHANGED <<rvars, avars, dvars, pvars, cvars, wvars, nvars, kvars, xvars, hvars, tvars, ivars>>

NextBarrel == merge_component_exports

(***************************************************************************)
(* Claims about the Export Barrel Merger                                   *)
(***************************************************************************)
\* positions of the first start marker and of the first end marker after it
StartOf(text) == Find(text, EXPORT_BLOCK_START, 1)
EndOf(text) == Find(text, EXPORT_BLOCK_END, StartOf(text) + 1)
HasBlock(file) ==
  file # None /\ StartOf(Get(file)) # 0 /\ EndOf(Get(file)) # 0

\* the export lines of the block of a barrel, in written order
BlockLinesOf(file) ==
  IF HasBlock(file)
  THEN SelectSeq(SubSeq(Get(file), StartOf(Get(file)), EndOf(Get(file))),
                 LAMBDA t : t.kind = "export")
  ELSE <<>>

TextBefore(file) == SubSeq(Get(file), 1, StartOf(Get(file)) - 1)
TextAfter(file) == SubSeq(Get(file), EndOf(Get(file)) + 1, Len(Get(file)))

Synced == last_sync # None
BarrelWritten == Synced /\ Get(last_sync).written

\* the names the block held for a module before the last call
NamesInBlock(mod) ==
  LET old == BlockLinesOf(Get(last_sync).prior)
  IN UNION {Range(old[i].names) :
              i \in {j \in 1..Len(old) : old[j].module = mod}}

\* the names the files of the last call contribute to a module
Contributed(mod) ==
  LET fs == Get(last_sync).files
  IN UNION {fs[i].exports :
              i \in {j \in 1..Len(fs) : Module(fs[j].stem) = mod}}

StrictlySorted(names) ==
  \A i, j \in 1..Len(names) :
     i < j => Rank(NameOrder, names[i]) < Rank(NameOrder, names[j])

C22_WitnessTwoLines ==
  /\ BarrelWritten
  /\ LET old == BlockLinesOf(Get(last_sync).prior)
     IN Len(old) = 2 /\ old[1].module = old[2].module
                    /\ old[1].names # old[2].names

\* C23: a barrel merge rewrites only the delimited block: after any number
\* of merges the text before the start marker and the text after the end
\* marker are what they were before the first merge; if the file or the
\* block does not exist, it is created
C23_OutsideBlockVerbatim ==
  bpc = "sync" =>
    /\ HasBlock(barrel_original) =>
         /\ HasBlock(barrel_file)
         /\ TextBefore(barrel_file) = TextBefore(barrel_original)
         /\ TextAfter(barrel_file) = TextAfter(barrel_original)
    /\ (BarrelWritten /\ ~HasBlock(Get(last_sync).prior)) =>
         HasBlock(barrel_file)


(***************************************************************************)
(* collect_components and the partition made by AddCommand::execute        *)
(* (crates/cli/src/commands/add.rs)                                        *)
(***************************************************************************)
\* the most slugs requested on one command line
MaxRequested == 2

\* the slugs of the registry, in the order dependencies are listed
SlugOrder == <<"button", "card", "icon">>
SlugNames == Range(SlugOrder)

\* registries: every component lists some of the slugs as its dependencies
DependencyLists == {SelectSeq(SlugOrder, LAMBDA s : s \in S) : S \in SUBSET SlugNames}
ComponentMaps == [SlugNames -> DependencyLists]

\* collect_component_with_dependencies as a function of the sets it is given
RECURSIVE CollectWithDependencies(_, _, _)
RECURSIVE CollectEach(_, _, _)
CollectWithDependencies(reg, slug, st) ==
  IF slug \in st.visited \/ slug \in st.visiting THEN st
  ELSE LET inner == CollectEach(reg, reg[slug],
                                [st EXCEPT !.visiting = @ \cup {slug}])
       IN [visiting |-> inner.visiting \ {slug},
           visited |-> inner.visited \cup {slug},
           ordered |-> Append(inner.ordered, slug)]

CollectEach(reg, deps, st) ==
  IF deps = <<>> THEN st
  ELSE CollectEach(reg, Tail(deps),
                   CollectWithDependencies(reg, Head(deps), st))

\* fetch_component_with_dependencies: the ordered list for one slug
ResolveOne(reg, slug) ==
  CollectWithDependencies(reg, slug,
    [visiting |-> {}, visited |-> {}, ordered |-> <<>>]).ordered

\* mutant: every component of every resolution is pushed
PushAlways(list, known, slug) == Append(list, slug)

\* `if seen.insert(slug) { entries.push(..) }`
PushUnseen(list, known, slug) ==
  IF slug \in known THEN list ELSE Append(list, slug)

\* the inner loop over the components of one resolution
RECURSIVE PushAll(_, _, _)
PushAll(list, known, resolved) ==
  IF resolved = <<>> THEN list
  ELSE PushAll(PushUnseen(list, known, Head(resolved)),
               known \cup {Head(resolved)}, Tail(resolved))

\* one turn of `for slug in requested_slugs`
collect_components ==
  /\ kpc = "collect"
  /\ req_idx <= Len(requested_slugs)
  /\ LET components_of == ResolveOne(registry_deps, requested_slugs[req_idx])
     IN /\ entries' = PushAll(entries, seen, components_of)
        /\ seen' = seen \cup Range(components_of)
  /\ req_idx' = req_idx + 1
  /\ kpc' = IF req_idx = Len(requested_slugs) THEN "partition" ELSE "collect"
  /\ UNCHANGED <<registry_deps, requested_slugs, requested_entries,
                 dependency_entries>>
  /\ UNCHANGED <<rvars, avars, dvars, pvars, cvars, wvars, nvars, bvars, xvars, hvars, tvars, ivars>>

\* execute: requested_entries and dependency_entries
partition_entries ==
  /\ kpc = "partition"
  /\ requested_entries' =
       SelectSeq(entries, LAMBDA s : s \in Range(requested_slugs))
  /\ dependency_entries' =
       SelectSeq(entries, LAMBDA s : s \notin Range(requested_slugs))
  /\ kpc' = "done"
  /\ UNCHANGED <<registry_deps, requested_slugs, req_idx, seen, entries>>
  /\ UNCHANGED <<rvars, avars, dvars, pvars, cvars, wvars, nvars, bvars, xvars, hvars, tvars, ivars>>

NextCollect == collect_components \/ partition_entries

(***************************************************************************)
(* Claims about the combined component list                                *)
(***************************************************************************)
\* the per-request resolutions, one after the other in request order
RECURSIVE Concatenated(_)
Concatenated(i) ==
  IF i > Len(requested_slugs) THEN <<>>
  ELSE ResolveOne(registry_deps, requested_slugs[i]) \o Concatenated(i + 1)

FirstAt(list, s) ==
  CHOOSE i \in 1..Len(list) : list[i] = s /\ \A j \in 1..(i - 1) : list[j] # s

Occurrences(list, s) == Cardinality({i \in 1..Len(list) : list[i] = s})

\* C24: the combined component list contains each slug exactly once, in
\* order of first appearance across the per-request resolutions taken in
\* request order; an entry is requested exactly when its slug is one of the
\* requested slugs and dependency-only otherwise, and the two classes
\* partition the list
C24_CombinedListAndPartition ==
  kpc = "done" =>
    LET all == Concatenated(1)
    IN /\ Range(entries) = Range(all)
       /\ \A s \in Range(entries) : Occurrences(entries, s) = 1
       /\ \A i, j \in 1..Len(entries) :
            i < j => FirstAt(all, entries[i]) < FirstAt(all, entries[j])
       /\ \A s \in Range(entries) :
            /\ Occurrences(requested_entries, s) =
                 (IF s \in Range(requested_slugs) THEN 1 ELSE 0)
            /\ Occurrences(dependency_entries, s) =
                 (IF s \in Range(requested_slugs) THEN 0 ELSE 1)
       /\ Range(requested_entries) \cup Range(dependency_entries)
            = Range(entries)
       /\ Len(requested_entries) + Len(dependency_entries) = Len(entries)

\* two requests share a dependency, and one request is also a dependency of
\* the other
C24_Witness ==
  /\ kpc = "done"
  /\ Len(requested_slugs) = 2
  /\ requested_slugs[1] # requested_slugs[2]
  /\ requested_slugs[2] \in Range(ResolveOne(registry_deps, requested_slugs[1]))
  /\ dependency_entries # <<>>
  /\ Len(Concatenated(1)) > Len(entries)

\* the same slug requested twice
C24_WitnessRepeated ==
  /\ kpc = "done"
  /\ Len(requested_slugs) = 2
  /\ requested_slugs[1] = requested_slugs[2]


(***************************************************************************)
(* Claims about the change log                                             *)
(***************************************************************************)
\* one entry per path, each holding the pre-run content of its path, and a
\* record for every file the run has changed
FirstTouchLog ==
  /\ \A i, j \in AllEntries :
       written_files[i].path = written_files[j].path => i = j
  /\ \A i \in AllEntries :
       written_files[i].previous_contents =
         pre_run[Inode(written_files[i].path)]
  /\ \A n \in Inodes :
       disk[n] # pre_run[n] =>
         \E i \in AllEntries : Inode(written_files[i].path) = n

\* a step leaves the log alone or appends one entry for an unrecorded path
AppendOnly ==
  \/ written_files' = written_files
  \/ /\ Len(written_files') = Len(written_files) + 1
     /\ SubSeq(written_files', 1, Len(written_files)) = written_files
     /\ ~Recorded(written_files, Last(written_files').path)

\* C25: at every point of a live run the change log holds at most one entry
\* per absolute path, each entry was recorded before the first write to its
\* path and holds that path's pre-run content (or absent), entries are only
\* appended, and a later write to an already-recorded path neither adds an
\* entry nor changes the recorded snapshot
C25_ChangeLogFirstTouch ==
  [](~dry_run => FirstTouchLog) /\ [][AppendOnly]_vars


(***************************************************************************)
(* One live run of `add` from its first fetch to its last write            *)
(* (AddCommand::execute and gather_component_files,                        *)
(* crates/cli/src/commands/add.rs).  The confirmation of conflicts is      *)
(* taken as given and writes and installs succeed; the run with failing    *)
(* writes is SpecAdd.                                                      *)
(***************************************************************************)
FILE_FETCH_CONCURRENCY == 6

\* absolute paths of the planned files
PlannedPaths == {"button.tsx", "card.tsx"}

\* pending_files in the order of the resolved component/file list
PendingLists == SeqsUpTo(PlannedPaths, MaxFiles) \ {<<>>}

FetchOutcomes == {"ok", "error"}

\* execute() returns Err(e) before anything was written
Abort(e) ==
  /\ run_result' = "Err"
  /\ fetch_error' = e
  /\ xpc' = "returned"

\* fetch_component_lookup: the registry manifest
fetch_component_lookup ==
  /\ xpc = "lookup"
  /\ \E got \in FetchOutcomes :
       IF got = "ok"
       THEN /\ xpc' = "names"
            /\ UNCHANGED <<run_result, fetch_error>>
       ELSE Abort("registry")
  /\ UNCHANGED <<pending, next_fetch, in_flight, fetch_results, gathered,
                 log_order, written_content, installs>>
  /\ UNCHANGED <<rvars, avars, dvars, pvars, cvars, wvars, nvars, bvars,
                 kvars, hvars, tvars, ivars>>

\* resolve_requested_components: a name the lookup does not know ends the run
\* with Ok(NoOp) after the error is printed
resolve_requested_components ==
  /\ xpc = "names"
  /\ \E known \in BOOLEAN :
       IF known
       THEN /\ xpc' = "collect"
            /\ UNCHANGED run_result
       ELSE /\ xpc' = "returned"
            /\ run_result' = "NoOp"
  /\ UNCHANGED <<pending, next_fetch, in_flight, fetch_results, gathered,
                 log_order, written_content, installs, fetch_error>>
  /\ UNCHANGED <<rvars, avars, dvars, pvars, cvars, wvars, nvars, bvars,
                 kvars, hvars, tvars, ivars>>

\* collect_components: fetch_component_with_dependencies fetches the registry
\* again and fails on a slug that is not in it
collect_components_fetch ==
  /\ xpc = "collect"
  /\ \E got \in {"ok", "registry", "ComponentNotFound"} :
       IF got = "ok"
       THEN /\ xpc' = "fetch"
            /\ UNCHANGED <<run_result, fetch_error>>
       ELSE Abort(got)
  /\ UNCHANGED <<pending, next_fetch, in_flight, fetch_results, gathered,
                 log_order, written_content, installs>>
  /\ UNCHANGED <<rvars, avars, dvars, pvars, cvars, wvars, nvars, bvars,
                 kvars, hvars, tvars, ivars>>

\* buffer_unordered takes the next future of the stream while fewer than
\* FILE_FETCH_CONCURRENCY are in flight
start_file_fetch ==
  /\ xpc = "fetch"
  /\ next_fetch <= Len(pending)
  /\ Cardinality(in_flight) < FILE_FETCH_CONCURRENCY
  /\ in_flight' = in_flight \cup {next_fetch}
  /\ next_fetch' = next_fetch + 1
  /\ UNCHANGED <<xpc, pending, fetch_results, gathered, log_order,
                 written_content, installs, run_result, fetch_error>>
  /\ UNCHANGED <<rvars, avars, dvars, pvars, cvars, wvars, nvars, bvars,
                 kvars, hvars, tvars, ivars>>

\* one fetch_component_file completes, in any order, and buffer_unordered
\* yields its result at once
complete_file_fetch ==
  /\ xpc = "fetch"
  /\ \E i \in in_flight, got \in FetchOutcomes :
       /\ in_flight' = in_flight \ {i}
       /\ fetch_results' = Append(fetch_results, [file |-> i, contents |-> got])
  /\ UNCHANGED <<xpc, pending, next_fetch, gathered, log_order,
                 written_content, installs, run_result, fetch_error>>
  /\ UNCHANGED <<rvars, avars, dvars, pvars, cvars, wvars, nvars, bvars,
                 kvars, hvars, tvars, ivars>>

\* mutant: a file whose fetch failed is left out and the run goes on
SkipFailed(results) == FALSE

\* `contents_result.with_context(..)?` over the drained results
AnyFailed(results) ==
  \E k \in 1..Len(results) : results[k].contents = "error"

\* the files pushed by the loop, in the order of the results
ResultFiles(results) ==
  LET fetched_ok == SelectSeq(results, LAMBDA r : r.contents = "ok")
  IN [k \in 1..Len(fetched_ok) |-> fetched_ok[k].file]

\* the loop over fetch_results.drain(..): files in the order of the results
drain_fetch_results ==
  /\ xpc = "fetch"
  /\ Len(fetch_results) = Len(pending)
  /\ IF AnyFailed(fetch_results)
     THEN /\ Abort("asset")
          /\ UNCHANGED gathered
     ELSE /\ gathered' = ResultFiles(fetch_results)
          /\ xpc' = "write"
          /\ UNCHANGED <<run_result, fetch_error>>
  /\ UNCHANGED <<pending, next_fetch, in_flight, fetch_results, log_order,
                 written_content, installs>>
  /\ UNCHANGED <<rvars, avars, dvars, pvars, cvars, wvars, nvars, bvars,
                 kvars, hvars, tvars, ivars>>

\* write_component_files: one file of `files`, with its change record
write_gathered_file ==
  /\ xpc = "write"
  /\ Len(gathered) > 0
  /\ LET file == Head(gathered)
         path == pending[file]
     IN /\ log_order' = IF path \in Range(log_order) THEN log_order
                        ELSE Append(log_order, path)
        /\ written_content' = [written_content EXCEPT ![path] = file]
  /\ gathered' = Tail(gathered)
  /\ UNCHANGED <<xpc, pending, next_fetch, in_flight, fetch_results,
                 installs, run_result, fetch_error>>
  /\ UNCHANGED <<rvars, avars, dvars, pvars, cvars, wvars, nvars, bvars,
                 kvars, hvars, tvars, ivars>>

\* sync_component_exports and handle_workspace_dependencies, then
\* Ok(Completed)
install_after_writes ==
  /\ xpc = "write"
  /\ Len(gathered) = 0
  /\ installs' = installs + 1
  /\ run_result' = "Completed"
  /\ xpc' = "returned"
  /\ UNCHANGED <<pending, next_fetch, in_flight, fetch_results, gathered,
                 log_order, written_content, fetch_error>>
  /\ UNCHANGED <<rvars, avars, dvars, pvars, cvars, wvars, nvars, bvars,
                 kvars, hvars, tvars, ivars>>

NextRun ==
  \/ fetch_component_lookup
  \/ resolve_requested_components
  \/ collect_components_fetch
  \/ start_file_fetch
  \/ complete_file_fetch
  \/ drain_fetch_results
  \/ write_gathered_file
  \/ install_after_writes

(***************************************************************************)
(* Claims about the order of fetches and writes                            *)
(***************************************************************************)
SomethingWritten == log_order # <<>>
RunEnded == xpc = "returned"

AllFetched ==
  /\ fetch_error = "none"
  /\ next_fetch > Len(pending)
  /\ in_flight = {}
  /\ Len(fetch_results) = Len(pending)
  /\ \A k \in 1..Len(fetch_results) : fetch_results[k].contents = "ok"

AssetFailed ==
  \E k \in 1..Len(fetch_results) : fetch_results[k].contents = "error"

C26_WitnessCompleted ==
  RunEnded /\ run_result = "Completed" /\ Len(log_order) = 2

\* the paths of the planned files in order of first appearance
RECURSIVE FirstSeenPaths(_)
FirstSeenPaths(list) ==
  IF list = <<>> THEN <<>>
  ELSE LET front == FirstSeenPaths(SubSeq(list, 1, Len(list) - 1))
       IN IF Last(list) \in Range(front) THEN front
          ELSE Append(front, Last(list))

LastPlanned(path) ==
  CHOOSE i \in 1..Len(pending) :
    pending[i] = path /\ \A j \in (i + 1)..Len(pending) : pending[j] # path

\* C27: files are written one at a time in an order fixed by the resolved
\* component/file list: the order of the change-log entries and, for two
\* planned files with one absolute path, the content written last are the
\* same for every completion order of the concurrent fetches
C27_WriteOrderFixedByPlan ==
  (RunEnded /\ run_result = "Completed") =>
    /\ log_order = FirstSeenPaths(pending)
    /\ \A path \in Range(pending) : written_content[path] = LastPlanned(path)


(***************************************************************************)
(* handle_workspace_dependencies (add.rs): for each workspace that has     *)
(* dependencies, reconcile them against the workspace's project and plan   *)
(* (and, in a live run, execute) one install per scope                     *)
(***************************************************************************)

\* the required ranges the registry components ask for
RequiredRanges == {Str("^", <<0, 1, 0>>), Str("^", <<1, 0, 0>>)}

\* the packages that components list as dev dependencies
DevDepNames == {"react"}

\* WorkspaceDependencySet: the regular and the dev map of one workspace
WorkspaceDependencySets ==
  [regular : UNION {[S -> RequiredRanges] : S \in SUBSET Range(DepNames)},
   dev : UNION {[S -> RequiredRanges] : S \in SUBSET DevDepNames}]

\* WorkspaceDependencySet::is_empty
is_empty(spec) == DOMAIN spec.regular = {} /\ DOMAIN spec.dev = {}

\* what base_path holds about one package: its node_modules entry and its
\* entry in package.json
PackageStates ==
  {[entry |-> NoEntry, declared |-> None],
   [entry |-> Entry(None), declared |-> None],
   [entry |-> Entry(Some(Str("", <<0, 1, 0>>))),
    declared |-> Some(Str("^", <<0, 1, 0>>))],
   [entry |-> Entry(Some(Str("", <<1, 0, 0>>))),
    declared |-> Some(Str("^", <<1, 0, 0>>))]}

Projects == [Range(DepNames) -> PackageStates]

\* handle.package_manager_context of the primary workspace and of a linked
\* workspace package
HandleContexts ==
  <<[repo_root |-> RepoRoot, workspace_root |-> None,
     workspace_package |-> None, package_manager |-> Some("npm")],
    [repo_root |-> RepoRoot, workspace_root |-> Some(WorkspaceRoot),
     workspace_package |-> Some(WorkspacePackage),
     package_manager |-> Some("npm")]>>

\* required_map: the regular entries, then the dev entries inserted over them
required_map(spec) ==
  [n \in DOMAIN spec.regular \cup DOMAIN spec.dev |->
     IF n \in DOMAIN spec.dev THEN spec.dev[n] ELSE spec.regular[n]]

\* the body of the loop of check_project_requirements for one package of
\* base_path
CheckPackage(required, state) ==
  LET nm == [d \in Range(SearchDirs) |->
               IF d = "base" THEN state.entry ELSE NoEntry]
  IN IF node_module_package_json_path(nm).exists
       THEN CheckInstalled(required, nm, state.declared)
       ELSE CheckMissingModule(required, state.declared, FALSE)

\* check_project_requirements(base_path, &required_map)
ProjectIssues(required, proj) ==
  {[name |-> n, reason |-> CheckPackage(required[n], proj[n])[1].reason] :
     n \in {m \in DOMAIN required : CheckPackage(required[m], proj[m]) # <<>>}}

\* issues.iter().find(|issue| issue.name == *dep) is Some
HasIssue(found, dep) == \E issue \in found : issue.name = dep

\* the loop over one scope of the spec: insert(dep, version) for every
\* dependency that has an issue
ToInstall(deps, found) ==
  [n \in {m \in DOMAIN deps : HasIssue(found, m)} |-> deps[n]]

EmptyDeps == [n \in {} |-> None]

NoSpec == [handle |-> 0, regular |-> EmptyDeps, dev |-> EmptyDeps]

\* the reconciliation of the workspace at handle_idx, up to the two maps
check_workspace_requirements ==
  /\ hpc = "handle"
  /\ IF handle_idx > Len(HandleContexts)
       THEN /\ hpc' = "returned"
            /\ deps_result' = "Ok"
            /\ UNCHANGED <<handle_idx, workspace_spec, project,
                           requirement_issues, deps_to_install,
                           dev_deps_to_install>>
       ELSE \E spec \in WorkspaceDependencySets :
              IF is_empty(spec)
                THEN \* Some(spec) if !spec.is_empty() => spec, _ => continue
                     /\ handle_idx' = handle_idx + 1
                     /\ UNCHANGED <<hpc, workspace_spec, project,
                                    requirement_issues, deps_to_install,
                                    dev_deps_to_install, deps_result>>
                ELSE \E proj \in Projects :
                       LET found == ProjectIssues(required_map(spec), proj)
                       IN /\ workspace_spec' =
                               [handle |-> handle_idx,
                                regular |-> spec.regular, dev |-> spec.dev]
                          /\ project' = proj
                          /\ requirement_issues' = found
                          /\ deps_to_install' = ToInstall(spec.regular, found)
                          /\ dev_deps_to_install' = ToInstall(spec.dev, found)
                          /\ hpc' = "regular"
                          /\ UNCHANGED <<handle_idx, deps_result>>
  /\ UNCHANGED <<deps_dry_run, install_plans>>
  /\ UNCHANGED <<rvars, avars, dvars, pvars, cvars, wvars, nvars, bvars, kvars, xvars, tvars, ivars>>

\* plan_dependency_install(&install_map, &handle.package_manager_context, ..)
\* for a map that is not empty, with how its execution went
InstallPlan(i, scope, install_map, executed_as) ==
  LET ctx == HandleContexts[i]
      tokens == deps_with_versions(install_map)
  IN [handle |-> i, scope |-> scope, executed |-> executed_as,
      plan |-> DependencyInstallPlan("npm", NpmCommand(ctx, tokens), ctx,
                                     tokens, None)]

\* `if !deps_to_install.is_empty() { .. }`
install_dependencies ==
  /\ hpc = "regular"
  /\ IF DOMAIN deps_to_install = {}
       THEN /\ hpc' = "dev"
            /\ UNCHANGED <<install_plans, deps_result>>
     ELSE IF deps_dry_run
       THEN /\ install_plans' =
                 Append(install_plans,
                        InstallPlan(handle_idx, "Regular", deps_to_install,
                                    "no"))
            /\ hpc' = "dev"
            /\ UNCHANGED deps_result
       ELSE \/ /\ install_plans' =
                    Append(install_plans,
                           InstallPlan(handle_idx, "Regular", deps_to_install,
                                       "ok"))
               /\ hpc' = "dev"
               /\ UNCHANGED deps_result
            \/ \* plan.execute()? : spawn failure or non-zero exit
               /\ install_plans' =
                    Append(install_plans,
                           InstallPlan(handle_idx, "Regular", deps_to_install,
                                       "failed"))
               /\ hpc' = "returned"
               /\ deps_result' = "Err"
  /\ UNCHANGED <<deps_dry_run, handle_idx, workspace_spec, project,
                 requirement_issues, deps_to_install, dev_deps_to_install>>
  /\ UNCHANGED <<rvars, avars, dvars, pvars, cvars, wvars, nvars, bvars, kvars, xvars, tvars, ivars>>

\* `if !dev_deps_to_install.is_empty() { .. }`, the end of the loop body
install_dev_dependencies ==
  /\ hpc = "dev"
  /\ IF DOMAIN dev_deps_to_install = {}
       THEN /\ hpc' = "handle"
            /\ handle_idx' = handle_idx + 1
            /\ UNCHANGED <<install_plans, deps_result>>
     ELSE IF deps_dry_run
       THEN /\ install_plans' =
                 Append(install_plans,
                        InstallPlan(handle_idx, "Dev", dev_deps_to_install,
                                    "no"))
            /\ hpc' = "handle"
            /\ handle_idx' = handle_idx + 1
            /\ UNCHANGED deps_result
       ELSE \/ /\ install_plans' =
                    Append(install_plans,
                           InstallPlan(handle_idx, "Dev", dev_deps_to_install,
                                       "ok"))
               /\ hpc' = "handle"
               /\ handle_idx' = handle_idx + 1
               /\ UNCHANGED deps_result
            \/ \* plan.execute()? : spawn failure or non-zero exit
               /\ install_plans' =
                    Append(install_plans,
                           InstallPlan(handle_idx, "Dev", dev_deps_to_install,
                                       "failed"))
               /\ hpc' = "returned"
               /\ deps_result' = "Err"
               /\ UNCHANGED handle_idx
  /\ UNCHANGED <<deps_dry_run, workspace_spec, project, requirement_issues,
                 deps_to_install, dev_deps_to_install>>
  /\ UNCHANGED <<rvars, avars, dvars, pvars, cvars, wvars, nvars, bvars, kvars, xvars, tvars, ivars>>

NextDependencies ==
  \/ check_workspace_requirements
  \/ install_dependencies
  \/ install_dev_dependencies

(***************************************************************************)
(* Issues and install plans                                                *)
(***************************************************************************)

\* the loop is done with the workspace it reconciled last
WorkspaceHandled ==
  /\ workspace_spec.handle # 0
  /\ \/ hpc = "returned"
     \/ hpc = "handle" /\ handle_idx > workspace_spec.handle

\* the tokens of the plans of one scope made for the workspace reconciled last
PlannedTokens(scope) ==
  UNION {Range(install_plans[k].plan.dependencies) :
           k \in {j \in 1..Len(install_plans) :
                    /\ install_plans[j].handle = workspace_spec.handle
                    /\ install_plans[j].scope = scope
                    /\ install_plans[j].plan.workspace_descriptor =
                         workspace_descriptor(
                           HandleContexts[workspace_spec.handle])}}

\* the tokens name@range of the entries of a scope that have an issue
IssueTokens(deps) ==
  {Token(n, deps[n]) : n \in {m \in DOMAIN deps :
                                HasIssue(requirement_issues, m)}}

\* C28: once the loop is done with a workspace, the plans made for that
\* workspace hold, per scope, exactly the dependencies that have an issue of
\* any reason, each as name@required range; a dependency without an issue is
\* in no plan, and an Unknown issue is planned like the others
C28_IssuesPlanned ==
  WorkspaceHandled =>
    /\ PlannedTokens("Regular") = IssueTokens(workspace_spec.regular)
    /\ PlannedTokens("Dev") = IssueTokens(workspace_spec.dev)

\* the same when no install fails
C28_IssuesPlannedUnlessInstallFails ==
  (WorkspaceHandled /\ deps_result # "Err") =>
    /\ PlannedTokens("Regular") = IssueTokens(workspace_spec.regular)
    /\ PlannedTokens("Dev") = IssueTokens(workspace_spec.dev)

\* a dev dependency with an issue is left without a plan
C28_DevIssueUnplanned ==
  /\ WorkspaceHandled
  /\ \E n \in DOMAIN workspace_spec.dev :
       /\ HasIssue(requirement_issues, n)
       /\ Token(n, workspace_spec.dev[n]) \notin PlannedTokens("Dev")

\* every reason is planned in a run that fails nowhere
C28_AllReasonsPlanned ==
  /\ hpc = "returned"
  /\ deps_result = "Ok"
  /\ {i.reason : i \in requirement_issues} \cap {"Unknown", "Outdated", "Missing"} # {}
  /\ Len(install_plans) >= 2


(***************************************************************************)
(* Where a component file is written (paths.rs, add.rs): the registry path *)
(* of the file is resolved under the components directory of the selected  *)
(* workspace, flattened for the slug, joined to the workspace root and     *)
(* written.  A path string is its sequence of names and '/' characters; a  *)
(* PathBuf is whether it is absolute and its components.                   *)
(***************************************************************************)

\* bound: number of '/'-separated segments of a registry path
MaxPathSegments == 3

\* the segments of registry paths; "" gives a leading or doubled '/'
PathSegments == {"", ".", "..", "src", "components", "ui", "button"}

RegistryPaths ==
  {JoinSegments(segs) : segs \in SeqsUpTo(PathSegments, MaxPathSegments)}

\* config.aliases.components.filesystem_path() of a workspace
ComponentsPaths ==
  {<<"components">>, <<"src", "/", "components", "/", "ui">>}

PathBuf(absolute, comps) == [absolute |-> absolute, comps |-> comps]

\* handle.root_abs: absolute, made of normal components
WorkspaceRoots ==
  {PathBuf(TRUE, <<"repo">>), PathBuf(TRUE, <<"repo", "packages", "ui">>)}

\* the segments of a path string between its '/' characters
RECURSIVE Parts(_)
Parts(s) ==
  IF s = <<>> THEN <<"">>
  ELSE IF Head(s) = "/" THEN <<"">> \o Parts(Tail(s))
  ELSE IF Len(s) = 1 THEN <<Head(s)>>
  ELSE <<Head(s)>> \o Parts(SubSeq(s, 3, Len(s)))

\* Path::components of a string that is joined to a base: empty segments and
\* `.` are skipped, `..` is kept
Components(s) == SelectSeq(Parts(s), LAMBDA p : p # "" /\ p # ".")

\* Path::new
PathNew(s) == PathBuf(starts_with(s, <<"/">>), Components(s))

\* Path::join: an absolute argument replaces the base
join(base, path) ==
  IF path.absolute THEN path
  ELSE PathBuf(base.absolute, base.comps \o path.comps)

\* Path::file_name: the last component when it is a normal one
file_name(s) ==
  IF Components(s) = <<>> \/ Last(Components(s)) = ".." THEN None
  ELSE Some(Last(Components(s)))

\* Path::strip_prefix: the components after the base
path_strip_prefix(path, base) ==
  IF /\ path.absolute = base.absolute
     /\ Len(path.comps) >= Len(base.comps)
     /\ SubSeq(path.comps, 1, Len(base.comps)) = base.comps
    THEN Some(SubSeq(path.comps, Len(base.comps) + 1, Len(path.comps)))
    ELSE None

\* strip_known_prefixes: "app/" then "src/", each at most once
strip_known_prefixes(path) ==
  LET a == IF starts_with(path, <<"app", "/">>)
             THEN Get(strip_prefix(path, <<"app", "/">>)) ELSE path
  IN IF starts_with(a, <<"src", "/">>)
       THEN Get(strip_prefix(a, <<"src", "/">>)) ELSE a

\* extract_alias_suffix
extract_alias_suffix(path) ==
  trim_start_matches(
    trim_start_matches(
      strip_known_prefixes(
        trim_start_matches(trim_start_matches(path, <<".", "/">>), <<"/">>)),
      <<"components", "/">>),
    <<"/">>)

\* trim_alias_suffix
trim_alias_suffix(relative, alias_suffix) ==
  IF alias_suffix = <<>> \/ relative = <<>> THEN relative
  ELSE IF relative = alias_suffix THEN <<>>
  ELSE IF starts_with(relative, alias_suffix)
    THEN LET remainder == Get(strip_prefix(relative, alias_suffix))
         IN IF starts_with(remainder, <<"/">>)
              THEN trim_start_matches(remainder, <<"/">>)
              ELSE relative
  ELSE relative

\* resolve_component_path
resolve_component_path(component_file_path, base_path) ==
  LET relative ==
        strip_known_prefixes(
          trim_start_matches(
            trim_start_matches(component_file_path, <<".", "/">>), <<"/">>))
      base == PathNew(base_path)
      alias_suffix == extract_alias_suffix(base_path)
      stripped ==
        IF starts_with(relative, <<"components", "/">>)
          THEN Get(strip_prefix(relative, <<"components", "/">>))
        ELSE IF relative = <<"components">> THEN <<>>
        ELSE relative
      effective_relative == trim_alias_suffix(stripped, alias_suffix)
  IN IF effective_relative = <<>>
       THEN IF file_name(component_file_path) # None
              THEN join(base, PathBuf(FALSE,
                                      <<Get(file_name(component_file_path))>>))
              ELSE join(base, PathNew(component_file_path))
       ELSE join(base, PathNew(effective_relative))

\* flatten_relative_path_for_slug
flatten_relative_path_for_slug(path, base_path, slug) ==
  LET base == PathNew(base_path)
      stripped == path_strip_prefix(path, base)
  IN IF stripped = None \/ Get(stripped) = <<>> THEN None
     ELSE IF Head(Get(stripped)) # slug THEN None
     ELSE IF Tail(Get(stripped)) = <<>> THEN None
     ELSE Some(join(base, PathBuf(FALSE, Tail(Get(stripped)))))

\* the body of the loop of gather_component_files up to absolute_path
plan_component_file ==
  /\ tpc = "plan"
  /\ LET resolved == resolve_component_path(registry_path, components_path)
         flattened == flatten_relative_path_for_slug(resolved, components_path,
                                                     component_slug)
         relative == IF flattened # None THEN Get(flattened) ELSE resolved
     IN /\ relative_path' = Some(relative)
        /\ absolute_path' = Some(join(root_abs, relative))
  /\ tpc' = "write"
  /\ UNCHANGED <<registry_path, components_path, component_slug, root_abs,
                 written_to>>
  /\ UNCHANGED <<rvars, avars, dvars, pvars, cvars, wvars, nvars, bvars, kvars, xvars, hvars, ivars>>

\* write_component_files in a live run: write_file(&file.absolute_path, ..)
write_planned_file ==
  /\ tpc = "write"
  /\ written_to' = written_to \cup {Get(absolute_path)}
  /\ tpc' = "done"
  /\ UNCHANGED <<registry_path, components_path, component_slug, root_abs,
                 relative_path, absolute_path>>
  /\ UNCHANGED <<rvars, avars, dvars, pvars, cvars, wvars, nvars, bvars, kvars, xvars, hvars, ivars>>

NextPlace == plan_component_file \/ write_planned_file

(***************************************************************************)
(* Containment of the written paths                                        *)
(***************************************************************************)

\* the directory an absolute path names once its `..` components are
\* followed (the parent of the root is the root)
RECURSIVE Followed(_, _)
Followed(comps, acc) ==
  IF comps = <<>> THEN acc
  ELSE IF Head(comps) = ".."
    THEN Followed(Tail(comps),
                  IF acc = <<>> THEN <<>> ELSE SubSeq(acc, 1, Len(acc) - 1))
  ELSE Followed(Tail(comps), Append(acc, Head(comps)))

\* the path names a file strictly below the root
InsideRoot(path, root) ==
  LET c == Followed(path.comps, <<>>)
  IN /\ path.absolute
     /\ Len(c) > Len(root.comps)
     /\ SubSeq(c, 1, Len(root.comps)) = root.comps

\* C29: every path a component file is written to lies inside the root of
\* the workspace selected for the file, whatever the registry path
C29_WrittenInsideWorkspaceRoot ==
  \A path \in written_to : InsideRoot(path, root_abs)

\* a registry path that starts with `..` was written outside the root
C29_ParentSegmentsEscape ==
  /\ tpc = "done"
  /\ starts_with(registry_path, <<"..">>)
  /\ \E path \in written_to : ~InsideRoot(path, root_abs)

\* a registry path without `..` was written to an absolute path of its own
C29_AbsoluteReplacesRoot ==
  /\ tpc = "done"
  /\ ".." \notin Range(registry_path)
  /\ \E path \in written_to : ~InsideRoot(path, root_abs)

\* a registry path with a leading '/' and no `..` is written inside the root
C29_LeadingSlashTrimmed ==
  /\ tpc = "done"
  /\ starts_with(registry_path, <<"/", "button">>)
  /\ \A path \in written_to : InsideRoot(path, root_abs)

\* a file of the slug's own directory is flattened and written inside the root
C29_Flattened ==
  /\ tpc = "done"
  /\ registry_path = <<"button", "/", "ui">>
  /\ written_to = {join(root_abs, join(PathNew(components_path),
                                       PathBuf(FALSE, <<"ui">>)))}


(***************************************************************************)
(* init (init.rs, rollback.rs): the steps of InitCommand::execute that     *)
(* write, the list of created paths, and the rollback of a failed run      *)
(***************************************************************************)

\* the files a run of init may write
InitFiles == {"nocta.config.json", "package.json", "utils", "icons",
              "tailwind_css", "manifest"}

\* a file content: what init writes, the exports entry init patches into a
\* package.json, and the design tokens init inserts into a CSS file
Created == <<"new">>
WithExports == <<"old", "exports">>
WithTokens == <<"old", "tokens">>

\* the project trees init may start in: read_config() found no
\* nocta.config.json
InitTrees ==
  {tree \in [InitFiles -> {Absent, Old, WithExports, WithTokens}] :
     /\ tree["nocta.config.json"] = Absent
     /\ tree["package.json"] \in {Absent, Old, WithExports}
     /\ tree["utils"] \in {Absent, Old}
     /\ tree["icons"] \in {Absent, Old}
     /\ tree["tailwind_css"] \in {Absent, Old, WithTokens}
     /\ tree["manifest"] \in {Absent, Old}}

\* fs::write succeeded
Written(tree, file, data) == [tree EXCEPT ![file] = data]

\* the trees a failed fs::write of `file` can leave
WriteFailed(tree, file) == {tree, [tree EXCEPT ![file] = Partial]}

\* the steps of execute before write_config: the checks of the project,
\* which write nothing
init_checks ==
  /\ ipc = "checks"
  /\ \/ /\ ipc' = "write_config"
        /\ UNCHANGED init_outcome
     \/ \* tailwind missing, framework unknown or tailwind below v4
        /\ ipc' = "returned"
        /\ init_outcome' = "NoOp"
     \/ \* resolve_workspace()?, registry_requirements()?, ..
        /\ ipc' = "failed"
        /\ UNCHANGED init_outcome
  /\ UNCHANGED <<init_dry_run, is_ui, manage_here, project_files, pre_init,
                 created_paths, rolled_back>>
  /\ UNCHANGED <<rvars, avars, dvars, pvars, cvars, wvars, nvars, bvars, kvars, xvars, hvars, tvars>>

\* InitCommand::write_config
write_config ==
  /\ ipc = "write_config"
  /\ IF init_dry_run
       THEN /\ ipc' = "ensure_package_exports"
            /\ UNCHANGED <<project_files, created_paths, init_outcome>>
       ELSE \/ /\ project_files' =
                    Written(project_files, "nocta.config.json", Created)
               /\ created_paths' = Append(created_paths, "nocta.config.json")
               /\ ipc' = "ensure_package_exports"
               /\ UNCHANGED init_outcome
            \/ /\ project_files' \in
                    WriteFailed(project_files, "nocta.config.json")
               /\ ipc' = "failed"
               /\ UNCHANGED init_outcome
               /\ UNCHANGED created_paths
  /\ UNCHANGED <<init_dry_run, is_ui, manage_here, pre_init, rolled_back>>
  /\ UNCHANGED <<rvars, avars, dvars, pvars, cvars, wvars, nvars, bvars, kvars, xvars, hvars, tvars>>

\* InitCommand::ensure_package_exports: the package.json of a Ui workspace
\* gets exports["."]; the path is not pushed to created_paths
ensure_package_exports ==
  /\ ipc = "ensure_package_exports"
  /\ IF \/ ~is_ui
        \/ project_files["package.json"] = Absent
        \/ project_files["package.json"] = WithExports
        \/ init_dry_run
       THEN /\ ipc' = "handle_dependencies"
            /\ UNCHANGED <<project_files, init_outcome>>
       ELSE \/ /\ project_files' =
                    Written(project_files, "package.json", WithExports)
               /\ ipc' = "handle_dependencies"
               /\ UNCHANGED init_outcome
            \/ \* an unsupported shape of `exports`: left untouched
               /\ ipc' = "handle_dependencies"
               /\ UNCHANGED <<project_files, init_outcome>>
            \/ \* from_str(..)? or fs::write(..)? failed
               /\ project_files' \in WriteFailed(project_files, "package.json")
               /\ ipc' = "failed"
               /\ UNCHANGED init_outcome
  /\ UNCHANGED <<init_dry_run, is_ui, manage_here, pre_init, created_paths,
                 rolled_back>>
  /\ UNCHANGED <<rvars, avars, dvars, pvars, cvars, wvars, nvars, bvars, kvars, xvars, hvars, tvars>>

\* InitCommand::handle_dependencies: a failed install is reported and the run
\* goes on; plan_dependency_install(..)? can fail
handle_dependencies ==
  /\ ipc = "handle_dependencies"
  /\ \/ /\ ipc' = "utils"
        /\ UNCHANGED init_outcome
     \/ /\ ipc' = "failed"
        /\ UNCHANGED init_outcome
  /\ UNCHANGED <<init_dry_run, is_ui, manage_here, project_files, pre_init,
                 created_paths, rolled_back>>
  /\ UNCHANGED <<rvars, avars, dvars, pvars, cvars, wvars, nvars, bvars, kvars, xvars, hvars, tvars>>

\* ensure_registry_asset for target_path `file`, inside sync_registry_assets
ensure_registry_asset(file, next) ==
  /\ ipc = file
  /\ IF ~manage_here \/ project_files[file] # Absent \/ init_dry_run
       THEN /\ ipc' = next
            /\ UNCHANGED <<project_files, created_paths, init_outcome>>
       ELSE \/ /\ project_files' = Written(project_files, file, Created)
               /\ created_paths' = Append(created_paths, file)
               /\ ipc' = next
               /\ UNCHANGED init_outcome
            \/ \* fetch_registry_asset(..)? or write_file(..)? failed
               /\ project_files' \in WriteFailed(project_files, file)
               /\ ipc' = "failed"
               /\ UNCHANGED init_outcome
               /\ UNCHANGED created_paths
  /\ UNCHANGED <<init_dry_run, is_ui, manage_here, pre_init, rolled_back>>
  /\ UNCHANGED <<rvars, avars, dvars, pvars, cvars, wvars, nvars, bvars, kvars, xvars, hvars, tvars>>

\* sync_registry_assets: lib/utils.ts, then icons/icons.ts
sync_registry_assets ==
  \/ ensure_registry_asset("utils", "icons")
  \/ ensure_registry_asset("icons", "apply_tailwind_tokens")

\* add_design_tokens_to_css wrote the file: a new file, or the tokens
\* inserted into the existing content
TokensAdded(tree) ==
  Written(tree, "tailwind_css",
          IF tree["tailwind_css"] = Absent THEN Created ELSE WithTokens)

\* InitCommand::apply_tailwind_tokens
apply_tailwind_tokens ==
  /\ ipc = "apply_tailwind_tokens"
  /\ IF ~manage_here \/ init_dry_run
       THEN /\ ipc' = "persist_workspace_manifest"
            /\ UNCHANGED <<project_files, created_paths, init_outcome>>
       ELSE \/ \* the fetch of the CSS bundle or the read of the file failed
               /\ ipc' = "failed"
               /\ UNCHANGED init_outcome
               /\ UNCHANGED <<project_files, created_paths>>
            \/ IF project_files["tailwind_css"] = WithTokens
                 THEN \* TOKENS_MARKER found: Ok(false)
                      /\ ipc' = "persist_workspace_manifest"
                      /\ UNCHANGED <<project_files, created_paths,
                                     init_outcome>>
                 ELSE \/ /\ project_files' = TokensAdded(project_files)
                         /\ created_paths' =
                              Append(created_paths, "tailwind_css")
                         /\ ipc' = "persist_workspace_manifest"
                         /\ UNCHANGED init_outcome
                      \/ /\ project_files' \in
                              WriteFailed(project_files, "tailwind_css")
                         /\ ipc' = "failed"
                         /\ UNCHANGED init_outcome
                         /\ UNCHANGED created_paths
  /\ UNCHANGED <<init_dry_run, is_ui, manage_here, pre_init, rolled_back>>
  /\ UNCHANGED <<rvars, avars, dvars, pvars, cvars, wvars, nvars, bvars, kvars, xvars, hvars, tvars>>

\* InitCommand::persist_workspace_manifest, then Ok(Completed)
persist_workspace_manifest ==
  /\ ipc = "persist_workspace_manifest"
  /\ IF init_dry_run
       THEN /\ ipc' = "returned"
            /\ init_outcome' = "Completed"
            /\ UNCHANGED <<project_files, created_paths>>
       ELSE \/ /\ project_files' = Written(project_files, "manifest", Created)
               /\ created_paths' =
                    IF pre_init["manifest"] = Absent
                      THEN Append(created_paths, "manifest")
                      ELSE created_paths
               /\ ipc' = "returned"
               /\ init_outcome' = "Completed"
            \/ /\ project_files' \in WriteFailed(project_files, "manifest")
               /\ ipc' = "failed"
               /\ UNCHANGED init_outcome
               /\ UNCHANGED created_paths
  /\ UNCHANGED <<init_dry_run, is_ui, manage_here, pre_init, rolled_back>>
  /\ UNCHANGED <<rvars, avars, dvars, pvars, cvars, wvars, nvars, bvars, kvars, xvars, hvars, tvars>>

\* rollback_changes: every path of the list that exists is removed; a
\* removal that fails is ignored
rollback_changes(tree, paths) ==
  {[f \in InitFiles |->
      IF f \in Range(paths) \ kept /\ tree[f] # Absent
        THEN Absent ELSE tree[f]] : kept \in SUBSET Range(paths)}

\* the Err arm of run(): finish(), InitCommand::rollback, Err(err)
rollback ==
  /\ ipc = "failed"
  /\ IF ~init_dry_run /\ created_paths # <<>>
       THEN /\ project_files' \in rollback_changes(project_files, created_paths)
            /\ rolled_back' = TRUE
       ELSE UNCHANGED <<project_files, rolled_back>>
  /\ ipc' = "returned"
  /\ init_outcome' = "Err"
  /\ UNCHANGED <<init_dry_run, is_ui, manage_here, pre_init, created_paths>>
  /\ UNCHANGED <<rvars, avars, dvars, pvars, cvars, wvars, nvars, bvars, kvars, xvars, hvars, tvars>>

NextInit ==
  \/ init_checks
  \/ write_config
  \/ ensure_package_exports
  \/ handle_dependencies
  \/ sync_registry_assets
  \/ apply_tailwind_tokens
  \/ persist_workspace_manifest
  \/ rollback

(***************************************************************************)
(* What a rolled-back init leaves                                          *)
(***************************************************************************)

InitRolledBack == ipc = "returned" /\ init_outcome = "Err" /\ rolled_back

PreExisting == {f \in InitFiles : pre_init[f] # Absent}

\* C30: after a failed live init that rolled back, every file that existed
\* before the run exists with its pre-run content
C30_RollbackKeepsPreExisting ==
  InitRolledBack => \A f \in PreExisting : project_files[f] = pre_init[f]

\* a CSS file that existed and received the tokens is deleted by the rollback
C30_TailwindCssDeleted ==
  /\ InitRolledBack
  /\ pre_init["tailwind_css"] = Old
  /\ project_files["tailwind_css"] = Absent

\* a patched package.json stays patched after the rollback
C30_PackageJsonLeftPatched ==
  /\ InitRolledBack
  /\ pre_init["package.json"] = Old
  /\ project_files["package.json"] = WithExports

\* a rollback that removes what the run created and leaves the rest as it was
C30_CreatedRemoved ==
  /\ InitRolledBack
  /\ pre_init["utils"] = Absent
  /\ "utils" \in Range(created_paths)
  /\ project_files = pre_init


(***************************************************************************)
(* Specifications                                                          *)
(***************************************************************************)
\* a resolution about to start; the other machines are idle
InitResolve ==
  /\ components \in Registries
  /\ requested \in Slugs \cup {GhostSlug}
  /\ rpc = "idle"
  /\ call = NoCall
  /\ stack = <<>>
  /\ visiting = {}
  /\ visited = {}
  /\ ordered = <<>>
  \* the other machines are idle
  /\ dry_run = FALSE
  /\ files = <<>>
  /\ barrel = NoBarrel
  /\ plans = 0
  /\ disk = [i \in Inodes |-> Absent]
  /\ pre_run = disk
  /\ written_files = <<>>
  /\ apc = "idle"
  /\ idx = 1
  /\ writes = 0
  /\ updates = 0
  /\ executed = 0
  /\ error = "none"
  /\ outcome = "none"
  /\ returned_error = "none"
  /\ rb_attempted = {}
  /\ rb_result = "none"
  /\ reported = {}
  /\ required_range = Star
  /\ node_modules = [d \in {"base", "parent"} |-> NoEntry]
  /\ declared_spec = None
  /\ uses_yarn_pnp = FALSE
  /\ dpc = "idle"
  /\ issues = <<>>
  /\ dependencies = <<>>
  /\ context = [repo_root |-> RepoRoot, workspace_root |-> None,
               workspace_package |-> None, package_manager |-> None]
  /\ lockfiles = {}
  /\ package_manager_field = None
  /\ bunfig_linker = None
  /\ ppc = "idle"
  /\ plan = None
  /\ ttl = 0
  /\ cache_entry = None
  /\ elapsed = 0
  /\ sidecar = None
  /\ pre_fetch = [entry |-> None, sidecar |-> None, elapsed |-> 0]
  /\ request = None
  /\ requests_sent = 0
  /\ response = None
  /\ fpc = "idle"
  /\ fetched = None
  /\ handles = <<WorkspaceHandle(1, "App", None)>>
  /\ component_files = <<>>
  /\ file_idx = 1
  /\ pending_files = <<>>
  /\ workspace_ids_for_component = {}
  /\ preferred_target = None
  /\ gpc = "idle"
  /\ gather_error = None
  /\ content = None
  /\ nhandle = [alias_prefix |-> <<"@">>, component_import_alias |-> None,
               components_path |-> <<"components">>]
  /\ normalized_content = <<>>
  /\ barrel_file = None
  /\ barrel_original = None
  /\ merges = 0
  /\ last_sync = None
  /\ bpc = "idle"
  /\ registry_deps = [s \in SlugNames |-> <<>>]
  /\ requested_slugs = <<>>
  /\ req_idx = 1
  /\ seen = {}
  /\ entries = <<>>
  /\ requested_entries = <<>>
  /\ dependency_entries = <<>>
  /\ kpc = "idle"
  /\ xpc = "idle"
  /\ pending = <<>>
  /\ next_fetch = 1
  /\ in_flight = {}
  /\ fetch_results = <<>>
  /\ gathered = <<>>
  /\ log_order = <<>>
  /\ written_content = [p \in PlannedPaths |-> 0]
  /\ installs = 0
  /\ run_result = "none"
  /\ fetch_error = "none"
  /\ hpc = "idle"
  /\ deps_dry_run = FALSE
  /\ handle_idx = 1
  /\ workspace_spec = NoSpec
  /\ project = [n \in Range(DepNames) |-> [entry |-> NoEntry, declared |-> None]]
  /\ requirement_issues = {}
  /\ deps_to_install = EmptyDeps
  /\ dev_deps_to_install = EmptyDeps
  /\ install_plans = <<>>
  /\ deps_result = "none"
  /\ tpc = "idle"
  /\ registry_path = <<>>
  /\ components_path = <<"components">>
  /\ component_slug = "button"
  /\ root_abs = PathBuf(TRUE, <<"repo">>)
  /\ relative_path = None
  /\ absolute_path = None
  /\ written_to = {}
  /\ ipc = "idle"
  /\ init_dry_run = FALSE
  /\ is_ui = FALSE
  /\ manage_here = TRUE
  /\ project_files = [f \in InitFiles |-> Absent]
  /\ pre_init = project_files
  /\ created_paths = <<>>
  /\ init_outcome = "none"
  /\ rolled_back = FALSE

\* a run of `add` at its conflict check, over any tree and plan; the other machines are idle
InitAdd ==
  /\ dry_run \in BOOLEAN
  /\ files \in SeqsUpTo(Paths, MaxFiles)
  /\ barrel \in Paths \cup {NoBarrel}
  /\ plans \in 0..MaxPlans
  /\ disk \in [Inodes -> {Absent, Old}]
  /\ pre_run = disk
  /\ written_files = <<>>
  /\ apc = "check"
  /\ idx = 1
  /\ writes = 0
  /\ updates = 0
  /\ executed = 0
  /\ error = "none"
  /\ outcome = "none"
  /\ returned_error = "none"
  /\ rb_attempted = {}
  /\ rb_result = "none"
  /\ reported = {}
  \* the other machines are idle
  /\ components = [s \in Slugs |-> <<>>]
  /\ requested = GhostSlug
  /\ rpc = "idle"
  /\ call = NoCall
  /\ stack = <<>>
  /\ visiting = {}
  /\ visited = {}
  /\ ordered = <<>>
  /\ required_range = Star
  /\ node_modules = [d \in {"base", "parent"} |-> NoEntry]
  /\ declared_spec = None
  /\ uses_yarn_pnp = FALSE
  /\ dpc = "idle"
  /\ issues = <<>>
  /\ dependencies = <<>>
  /\ context = [repo_root |-> RepoRoot, workspace_root |-> None,
               workspace_package |-> None, package_manager |-> None]
  /\ lockfiles = {}
  /\ package_manager_field = None
  /\ bunfig_linker = None
  /\ ppc = "idle"
  /\ plan = None
  /\ ttl = 0
  /\ cache_entry = None
  /\ elapsed = 0
  /\ sidecar = None
  /\ pre_fetch = [entry |-> None, sidecar |-> None, elapsed |-> 0]
  /\ request = None
  /\ requests_sent = 0
  /\ response = None
  /\ fpc = "idle"
  /\ fetched = None
  /\ handles = <<WorkspaceHandle(1, "App", None)>>
  /\ component_files = <<>>
  /\ file_idx = 1
  /\ pending_files = <<>>
  /\ workspace_ids_for_component = {}
  /\ preferred_target = None
  /\ gpc = "idle"
  /\ gather_error = None
  /\ content = None
  /\ nhandle = [alias_prefix |-> <<"@">>, component_import_alias |-> None,
               components_path |-> <<"components">>]
  /\ normalized_content = <<>>
  /\ barrel_file = None
  /\ barrel_original = None
  /\ merges = 0
  /\ last_sync = None
  /\ bpc = "idle"
  /\ registry_deps = [s \in SlugNames |-> <<>>]
  /\ requested_slugs = <<>>
  /\ req_idx = 1
  /\ seen = {}
  /\ entries = <<>>
  /\ requested_entries = <<>>
  /\ dependency_entries = <<>>
  /\ kpc = "idle"
  /\ xpc = "idle"
  /\ pending = <<>>
  /\ next_fetch = 1
  /\ in_flight = {}
  /\ fetch_results = <<>>
  /\ gathered = <<>>
  /\ log_order = <<>>
  /\ written_content = [p \in PlannedPaths |-> 0]
  /\ installs = 0
  /\ run_result = "none"
  /\ fetch_error = "none"
  /\ hpc = "idle"
  /\ deps_dry_run = FALSE
  /\ handle_idx = 1
  /\ workspace_spec = NoSpec
  /\ project = [n \in Range(DepNames) |-> [entry |-> NoEntry, declared |-> None]]
  /\ requirement_issues = {}
  /\ deps_to_install = EmptyDeps
  /\ dev_deps_to_install = EmptyDeps
  /\ install_plans = <<>>
  /\ deps_result = "none"
  /\ tpc = "idle"
  /\ registry_path = <<>>
  /\ components_path = <<"components">>
  /\ component_slug = "button"
  /\ root_abs = PathBuf(TRUE, <<"repo">>)
  /\ relative_path = None
  /\ absolute_path = None
  /\ written_to = {}
  /\ ipc = "idle"
  /\ init_dry_run = FALSE
  /\ is_ui = FALSE
  /\ manage_here = TRUE
  /\ project_files = [f \in InitFiles |-> Absent]
  /\ pre_init = project_files
  /\ created_paths = <<>>
  /\ init_outcome = "none"
  /\ rolled_back = FALSE

\* a reconciliation about to start, over any installed and declared state; the other machines are idle
InitDeps ==
  /\ required_range \in SpecStrings
  /\ node_modules \in [{"base", "parent"} -> Entries]
  /\ declared_spec \in {None} \cup {Some(s) : s \in SpecStrings}
  /\ uses_yarn_pnp \in BOOLEAN
  /\ dpc = "start"
  /\ issues = <<>>
  \* the other machines are idle
  /\ components = [s \in Slugs |-> <<>>]
  /\ requested = GhostSlug
  /\ rpc = "idle"
  /\ call = NoCall
  /\ stack = <<>>
  /\ visiting = {}
  /\ visited = {}
  /\ ordered = <<>>
  /\ dry_run = FALSE
  /\ files = <<>>
  /\ barrel = NoBarrel
  /\ plans = 0
  /\ disk = [i \in Inodes |-> Absent]
  /\ pre_run = disk
  /\ written_files = <<>>
  /\ apc = "idle"
  /\ idx = 1
  /\ writes = 0
  /\ updates = 0
  /\ executed = 0
  /\ error = "none"
  /\ outcome = "none"
  /\ returned_error = "none"
  /\ rb_attempted = {}
  /\ rb_result = "none"
  /\ reported = {}
  /\ dependencies = <<>>
  /\ context = [repo_root |-> RepoRoot, workspace_root |-> None,
               workspace_package |-> None, package_manager |-> None]
  /\ lockfiles = {}
  /\ package_manager_field = None
  /\ bunfig_linker = None
  /\ ppc = "idle"
  /\ plan = None
  /\ ttl = 0
  /\ cache_entry = None
  /\ elapsed = 0
  /\ sidecar = None
  /\ pre_fetch = [entry |-> None, sidecar |-> None, elapsed |-> 0]
  /\ request = None
  /\ requests_sent = 0
  /\ response = None
  /\ fpc = "idle"
  /\ fetched = None
  /\ handles = <<WorkspaceHandle(1, "App", None)>>
  /\ component_files = <<>>
  /\ file_idx = 1
  /\ pending_files = <<>>
  /\ workspace_ids_for_component = {}
  /\ preferred_target = None
  /\ gpc = "idle"
  /\ gather_error = None
  /\ content = None
  /\ nhandle = [alias_prefix |-> <<"@">>, component_import_alias |-> None,
               components_path |-> <<"components">>]
  /\ normalized_content = <<>>
  /\ barrel_file = None
  /\ barrel_original = None
  /\ merges = 0
  /\ last_sync = None
  /\ bpc = "idle"
  /\ registry_deps = [s \in SlugNames |-> <<>>]
  /\ requested_slugs = <<>>
  /\ req_idx = 1
  /\ seen = {}
  /\ entries = <<>>
  /\ requested_entries = <<>>
  /\ dependency_entries = <<>>
  /\ kpc = "idle"
  /\ xpc = "idle"
  /\ pending = <<>>
  /\ next_fetch = 1
  /\ in_flight = {}
  /\ fetch_results = <<>>
  /\ gathered = <<>>
  /\ log_order = <<>>
  /\ written_content = [p \in PlannedPaths |-> 0]
  /\ installs = 0
  /\ run_result = "none"
  /\ fetch_error = "none"
  /\ hpc = "idle"
  /\ deps_dry_run = FALSE
  /\ handle_idx = 1
  /\ workspace_spec = NoSpec
  /\ project = [n \in Range(DepNames) |-> [entry |-> NoEntry, declared |-> None]]
  /\ requirement_issues = {}
  /\ deps_to_install = EmptyDeps
  /\ dev_deps_to_install = EmptyDeps
  /\ install_plans = <<>>
  /\ deps_result = "none"
  /\ tpc = "idle"
  /\ registry_path = <<>>
  /\ components_path = <<"components">>
  /\ component_slug = "button"
  /\ root_abs = PathBuf(TRUE, <<"repo">>)
  /\ relative_path = None
  /\ absolute_path = None
  /\ written_to = {}
  /\ ipc = "idle"
  /\ init_dry_run = FALSE
  /\ is_ui = FALSE
  /\ manage_here = TRUE
  /\ project_files = [f \in InitFiles |-> Absent]
  /\ pre_init = project_files
  /\ created_paths = <<>>
  /\ init_outcome = "none"
  /\ rolled_back = FALSE

\* a call of plan_dependency_install, over any map and context; the other machines are idle
InitPlan ==
  /\ dependencies \in DependencyMaps
  /\ context \in PackageManagerContexts
  /\ lockfiles \in SUBSET PackageManagerKinds
  /\ package_manager_field \in {None} \cup {Some(k) : k \in PackageManagerKinds}
  /\ bunfig_linker \in {None, Some("hoisted")}
  /\ ppc = "start"
  /\ plan = None
  \* the other machines are idle
  /\ components = [s \in Slugs |-> <<>>]
  /\ requested = GhostSlug
  /\ rpc = "idle"
  /\ call = NoCall
  /\ stack = <<>>
  /\ visiting = {}
  /\ visited = {}
  /\ ordered = <<>>
  /\ dry_run = FALSE
  /\ files = <<>>
  /\ barrel = NoBarrel
  /\ plans = 0
  /\ disk = [i \in Inodes |-> Absent]
  /\ pre_run = disk
  /\ written_files = <<>>
  /\ apc = "idle"
  /\ idx = 1
  /\ writes = 0
  /\ updates = 0
  /\ executed = 0
  /\ error = "none"
  /\ outcome = "none"
  /\ returned_error = "none"
  /\ rb_attempted = {}
  /\ rb_result = "none"
  /\ reported = {}
  /\ required_range = Star
  /\ node_modules = [d \in {"base", "parent"} |-> NoEntry]
  /\ declared_spec = None
  /\ uses_yarn_pnp = FALSE
  /\ dpc = "idle"
  /\ issues = <<>>
  /\ ttl = 0
  /\ cache_entry = None
  /\ elapsed = 0
  /\ sidecar = None
  /\ pre_fetch = [entry |-> None, sidecar |-> None, elapsed |-> 0]
  /\ request = None
  /\ requests_sent = 0
  /\ response = None
  /\ fpc = "idle"
  /\ fetched = None
  /\ handles = <<WorkspaceHandle(1, "App", None)>>
  /\ component_files = <<>>
  /\ file_idx = 1
  /\ pending_files = <<>>
  /\ workspace_ids_for_component = {}
  /\ preferred_target = None
  /\ gpc = "idle"
  /\ gather_error = None
  /\ content = None
  /\ nhandle = [alias_prefix |-> <<"@">>, component_import_alias |-> None,
               components_path |-> <<"components">>]
  /\ normalized_content = <<>>
  /\ barrel_file = None
  /\ barrel_original = None
  /\ merges = 0
  /\ last_sync = None
  /\ bpc = "idle"
  /\ registry_deps = [s \in SlugNames |-> <<>>]
  /\ requested_slugs = <<>>
  /\ req_idx = 1
  /\ seen = {}
  /\ entries = <<>>
  /\ requested_entries = <<>>
  /\ dependency_entries = <<>>
  /\ kpc = "idle"
  /\ xpc = "idle"
  /\ pending = <<>>
  /\ next_fetch = 1
  /\ in_flight = {}
  /\ fetch_results = <<>>
  /\ gathered = <<>>
  /\ log_order = <<>>
  /\ written_content = [p \in PlannedPaths |-> 0]
  /\ installs = 0
  /\ run_result = "none"
  /\ fetch_error = "none"
  /\ hpc = "idle"
  /\ deps_dry_run = FALSE
  /\ handle_idx = 1
  /\ workspace_spec = NoSpec
  /\ project = [n \in Range(DepNames) |-> [entry |-> NoEntry, declared |-> None]]
  /\ requirement_issues = {}
  /\ deps_to_install = EmptyDeps
  /\ dev_deps_to_install = EmptyDeps
  /\ install_plans = <<>>
  /\ deps_result = "none"
  /\ tpc = "idle"
  /\ registry_path = <<>>
  /\ components_path = <<"components">>
  /\ component_slug = "button"
  /\ root_abs = PathBuf(TRUE, <<"repo">>)
  /\ relative_path = None
  /\ absolute_path = None
  /\ written_to = {}
  /\ ipc = "idle"
  /\ init_dry_run = FALSE
  /\ is_ui = FALSE
  /\ manage_here = TRUE
  /\ project_files = [f \in InitFiles |-> Absent]
  /\ pre_init = project_files
  /\ created_paths = <<>>
  /\ init_outcome = "none"
  /\ rolled_back = FALSE

\* a call of fetch_with_cache, over any cache state, TTL and age; the other machines are idle
InitCache ==
  /\ ttl \in Times
  /\ cache_entry \in {None, Some("cached body")}
  /\ elapsed \in Times
  /\ sidecar \in Sidecars
  /\ pre_fetch = [entry |-> cache_entry, sidecar |-> sidecar, elapsed |-> elapsed]
  /\ request = None
  /\ requests_sent = 0
  /\ response = None
  /\ fpc = "start"
  /\ fetched = None
  \* the other machines are idle
  /\ components = [s \in Slugs |-> <<>>]
  /\ requested = GhostSlug
  /\ rpc = "idle"
  /\ call = NoCall
  /\ stack = <<>>
  /\ visiting = {}
  /\ visited = {}
  /\ ordered = <<>>
  /\ dry_run = FALSE
  /\ files = <<>>
  /\ barrel = NoBarrel
  /\ plans = 0
  /\ disk = [i \in Inodes |-> Absent]
  /\ pre_run = disk
  /\ written_files = <<>>
  /\ apc = "idle"
  /\ idx = 1
  /\ writes = 0
  /\ updates = 0
  /\ executed = 0
  /\ error = "none"
  /\ outcome = "none"
  /\ returned_error = "none"
  /\ rb_attempted = {}
  /\ rb_result = "none"
  /\ reported = {}
  /\ required_range = Star
  /\ node_modules = [d \in {"base", "parent"} |-> NoEntry]
  /\ declared_spec = None
  /\ uses_yarn_pnp = FALSE
  /\ dpc = "idle"
  /\ issues = <<>>
  /\ dependencies = <<>>
  /\ context = [repo_root |-> RepoRoot, workspace_root |-> None,
               workspace_package |-> None, package_manager |-> None]
  /\ lockfiles = {}
  /\ package_manager_field = None
  /\ bunfig_linker = None
  /\ ppc = "idle"
  /\ plan = None
  /\ handles = <<WorkspaceHandle(1, "App", None)>>
  /\ component_files = <<>>
  /\ file_idx = 1
  /\ pending_files = <<>>
  /\ workspace_ids_for_component = {}
  /\ preferred_target = None
  /\ gpc = "idle"
  /\ gather_error = None
  /\ content = None
  /\ nhandle = [alias_prefix |-> <<"@">>, component_import_alias |-> None,
               components_path |-> <<"components">>]
  /\ normalized_content = <<>>
  /\ barrel_file = None
  /\ barrel_original = None
  /\ merges = 0
  /\ last_sync = None
  /\ bpc = "idle"
  /\ registry_deps = [s \in SlugNames |-> <<>>]
  /\ requested_slugs = <<>>
  /\ req_idx = 1
  /\ seen = {}
  /\ entries = <<>>
  /\ requested_entries = <<>>
  /\ dependency_entries = <<>>
  /\ kpc = "idle"
  /\ xpc = "idle"
  /\ pending = <<>>
  /\ next_fetch = 1
  /\ in_flight = {}
  /\ fetch_results = <<>>
  /\ gathered = <<>>
  /\ log_order = <<>>
  /\ written_content = [p \in PlannedPaths |-> 0]
  /\ installs = 0
  /\ run_result = "none"
  /\ fetch_error = "none"
  /\ hpc = "idle"
  /\ deps_dry_run = FALSE
  /\ handle_idx = 1
  /\ workspace_spec = NoSpec
  /\ project = [n \in Range(DepNames) |-> [entry |-> NoEntry, declared |-> None]]
  /\ requirement_issues = {}
  /\ deps_to_install = EmptyDeps
  /\ dev_deps_to_install = EmptyDeps
  /\ install_plans = <<>>
  /\ deps_result = "none"
  /\ tpc = "idle"
  /\ registry_path = <<>>
  /\ components_path = <<"components">>
  /\ component_slug = "button"
  /\ root_abs = PathBuf(TRUE, <<"repo">>)
  /\ relative_path = None
  /\ absolute_path = None
  /\ written_to = {}
  /\ ipc = "idle"
  /\ init_dry_run = FALSE
  /\ is_ui = FALSE
  /\ manage_here = TRUE
  /\ project_files = [f \in InitFiles |-> Absent]
  /\ pre_init = project_files
  /\ created_paths = <<>>
  /\ init_outcome = "none"
  /\ rolled_back = FALSE

\* one file of a component about to be targeted, over any context and target; the other machines are idle
InitSelect ==
  /\ handles \in WorkspaceContexts({None} \cup {Some(p) : p \in PackageNames})
  /\ component_files \in [1..1 -> FileTargets]
  /\ file_idx = 1
  /\ pending_files = <<>>
  /\ workspace_ids_for_component = {}
  /\ preferred_target = None
  /\ gpc = "files"
  /\ gather_error = None
  \* the other machines are idle
  /\ components = [s \in Slugs |-> <<>>]
  /\ requested = GhostSlug
  /\ rpc = "idle"
  /\ call = NoCall
  /\ stack = <<>>
  /\ visiting = {}
  /\ visited = {}
  /\ ordered = <<>>
  /\ dry_run = FALSE
  /\ files = <<>>
  /\ barrel = NoBarrel
  /\ plans = 0
  /\ disk = [i \in Inodes |-> Absent]
  /\ pre_run = disk
  /\ written_files = <<>>
  /\ apc = "idle"
  /\ idx = 1
  /\ writes = 0
  /\ updates = 0
  /\ executed = 0
  /\ error = "none"
  /\ outcome = "none"
  /\ returned_error = "none"
  /\ rb_attempted = {}
  /\ rb_result = "none"
  /\ reported = {}
  /\ required_range = Star
  /\ node_modules = [d \in {"base", "parent"} |-> NoEntry]
  /\ declared_spec = None
  /\ uses_yarn_pnp = FALSE
  /\ dpc = "idle"
  /\ issues = <<>>
  /\ dependencies = <<>>
  /\ context = [repo_root |-> RepoRoot, workspace_root |-> None,
               workspace_package |-> None, package_manager |-> None]
  /\ lockfiles = {}
  /\ package_manager_field = None
  /\ bunfig_linker = None
  /\ ppc = "idle"
  /\ plan = None
  /\ ttl = 0
  /\ cache_entry = None
  /\ elapsed = 0
  /\ sidecar = None
  /\ pre_fetch = [entry |-> None, sidecar |-> None, elapsed |-> 0]
  /\ request = None
  /\ requests_sent = 0
  /\ response = None
  /\ fpc = "idle"
  /\ fetched = None
  /\ content = None
  /\ nhandle = [alias_prefix |-> <<"@">>, component_import_alias |-> None,
               components_path |-> <<"components">>]
  /\ normalized_content = <<>>
  /\ barrel_file = None
  /\ barrel_original = None
  /\ merges = 0
  /\ last_sync = None
  /\ bpc = "idle"
  /\ registry_deps = [s \in SlugNames |-> <<>>]
  /\ requested_slugs = <<>>
  /\ req_idx = 1
  /\ seen = {}
  /\ entries = <<>>
  /\ requested_entries = <<>>
  /\ dependency_entries = <<>>
  /\ kpc = "idle"
  /\ xpc = "idle"
  /\ pending = <<>>
  /\ next_fetch = 1
  /\ in_flight = {}
  /\ fetch_results = <<>>
  /\ gathered = <<>>
  /\ log_order = <<>>
  /\ written_content = [p \in PlannedPaths |-> 0]
  /\ installs = 0
  /\ run_result = "none"
  /\ fetch_error = "none"
  /\ hpc = "idle"
  /\ deps_dry_run = FALSE
  /\ handle_idx = 1
  /\ workspace_spec = NoSpec
  /\ project = [n \in Range(DepNames) |-> [entry |-> NoEntry, declared |-> None]]
  /\ requirement_issues = {}
  /\ deps_to_install = EmptyDeps
  /\ dev_deps_to_install = EmptyDeps
  /\ install_plans = <<>>
  /\ deps_result = "none"
  /\ tpc = "idle"
  /\ registry_path = <<>>
  /\ components_path = <<"components">>
  /\ component_slug = "button"
  /\ root_abs = PathBuf(TRUE, <<"repo">>)
  /\ relative_path = None
  /\ absolute_path = None
  /\ written_to = {}
  /\ ipc = "idle"
  /\ init_dry_run = FALSE
  /\ is_ui = FALSE
  /\ manage_here = TRUE
  /\ project_files = [f \in InitFiles |-> Absent]
  /\ pre_init = project_files
  /\ created_paths = <<>>
  /\ init_outcome = "none"
  /\ rolled_back = FALSE

\* the files of a component about to be targeted, over any context without package names; the other machines are idle
InitGather ==
  /\ handles \in WorkspaceContexts({None})
  /\ component_files \in SeqsUpTo(GatherTargets, MaxFiles)
  /\ file_idx = 1
  /\ pending_files = <<>>
  /\ workspace_ids_for_component = {}
  /\ preferred_target = None
  /\ gpc = "files"
  /\ gather_error = None
  \* the other machines are idle
  /\ components = [s \in Slugs |-> <<>>]
  /\ requested = GhostSlug
  /\ rpc = "idle"
  /\ call = NoCall
  /\ stack = <<>>
  /\ visiting = {}
  /\ visited = {}
  /\ ordered = <<>>
  /\ dry_run = FALSE
  /\ files = <<>>
  /\ barrel = NoBarrel
  /\ plans = 0
  /\ disk = [i \in Inodes |-> Absent]
  /\ pre_run = disk
  /\ written_files = <<>>
  /\ apc = "idle"
  /\ idx = 1
  /\ writes = 0
  /\ updates = 0
  /\ executed = 0
  /\ error = "none"
  /\ outcome = "none"
  /\ returned_error = "none"
  /\ rb_attempted = {}
  /\ rb_result = "none"
  /\ reported = {}
  /\ required_range = Star
  /\ node_modules = [d \in {"base", "parent"} |-> NoEntry]
  /\ declared_spec = None
  /\ uses_yarn_pnp = FALSE
  /\ dpc = "idle"
  /\ issues = <<>>
  /\ dependencies = <<>>
  /\ context = [repo_root |-> RepoRoot, workspace_root |-> None,
               workspace_package |-> None, package_manager |-> None]
  /\ lockfiles = {}
  /\ package_manager_field = None
  /\ bunfig_linker = None
  /\ ppc = "idle"
  /\ plan = None
  /\ ttl = 0
  /\ cache_entry = None
  /\ elapsed = 0
  /\ sidecar = None
  /\ pre_fetch = [entry |-> None, sidecar |-> None, elapsed |-> 0]
  /\ request = None
  /\ requests_sent = 0
  /\ response = None
  /\ fpc = "idle"
  /\ fetched = None
  /\ content = None
  /\ nhandle = [alias_prefix |-> <<"@">>, component_import_alias |-> None,
               components_path |-> <<"components">>]
  /\ normalized_content = <<>>
  /\ barrel_file = None
  /\ barrel_original = None
  /\ merges = 0
  /\ last_sync = None
  /\ bpc = "idle"
  /\ registry_deps = [s \in SlugNames |-> <<>>]
  /\ requested_slugs = <<>>
  /\ req_idx = 1
  /\ seen = {}
  /\ entries = <<>>
  /\ requested_entries = <<>>
  /\ dependency_entries = <<>>
  /\ kpc = "idle"
  /\ xpc = "idle"
  /\ pending = <<>>
  /\ next_fetch = 1
  /\ in_flight = {}
  /\ fetch_results = <<>>
  /\ gathered = <<>>
  /\ log_order = <<>>
  /\ written_content = [p \in PlannedPaths |-> 0]
  /\ installs = 0
  /\ run_result = "none"
  /\ fetch_error = "none"
  /\ hpc = "idle"
  /\ deps_dry_run = FALSE
  /\ handle_idx = 1
  /\ workspace_spec = NoSpec
  /\ project = [n \in Range(DepNames) |-> [entry |-> NoEntry, declared |-> None]]
  /\ requirement_issues = {}
  /\ deps_to_install = EmptyDeps
  /\ dev_deps_to_install = EmptyDeps
  /\ install_plans = <<>>
  /\ deps_result = "none"
  /\ tpc = "idle"
  /\ registry_path = <<>>
  /\ components_path = <<"components">>
  /\ component_slug = "button"
  /\ root_abs = PathBuf(TRUE, <<"repo">>)
  /\ relative_path = None
  /\ absolute_path = None
  /\ written_to = {}
  /\ ipc = "idle"
  /\ init_dry_run = FALSE
  /\ is_ui = FALSE
  /\ manage_here = TRUE
  /\ project_files = [f \in InitFiles |-> Absent]
  /\ pre_init = project_files
  /\ created_paths = <<>>
  /\ init_outcome = "none"
  /\ rolled_back = FALSE

\* the normalizer about to run on a fetched import, for any destination workspace; the other machines are idle
InitNormalize ==
  /\ content \in {Some(c) : c \in Contents}
  /\ nhandle \in NormalizerHandles
  /\ normalized_content = <<>>
  \* the other machines are idle
  /\ components = [s \in Slugs |-> <<>>]
  /\ requested = GhostSlug
  /\ rpc = "idle"
  /\ call = NoCall
  /\ stack = <<>>
  /\ visiting = {}
  /\ visited = {}
  /\ ordered = <<>>
  /\ dry_run = FALSE
  /\ files = <<>>
  /\ barrel = NoBarrel
  /\ plans = 0
  /\ disk = [i \in Inodes |-> Absent]
  /\ pre_run = disk
  /\ written_files = <<>>
  /\ apc = "idle"
  /\ idx = 1
  /\ writes = 0
  /\ updates = 0
  /\ executed = 0
  /\ error = "none"
  /\ outcome = "none"
  /\ returned_error = "none"
  /\ rb_attempted = {}
  /\ rb_result = "none"
  /\ reported = {}
  /\ required_range = Star
  /\ node_modules = [d \in {"base", "parent"} |-> NoEntry]
  /\ declared_spec = None
  /\ uses_yarn_pnp = FALSE
  /\ dpc = "idle"
  /\ issues = <<>>
  /\ dependencies = <<>>
  /\ context = [repo_root |-> RepoRoot, workspace_root |-> None,
               workspace_package |-> None, package_manager |-> None]
  /\ lockfiles = {}
  /\ package_manager_field = None
  /\ bunfig_linker = None
  /\ ppc = "idle"
  /\ plan = None
  /\ ttl = 0
  /\ cache_entry = None
  /\ elapsed = 0
  /\ sidecar = None
  /\ pre_fetch = [entry |-> None, sidecar |-> None, elapsed |-> 0]
  /\ request = None
  /\ requests_sent = 0
  /\ response = None
  /\ fpc = "idle"
  /\ fetched = None
  /\ handles = <<WorkspaceHandle(1, "App", None)>>
  /\ component_files = <<>>
  /\ file_idx = 1
  /\ pending_files = <<>>
  /\ workspace_ids_for_component = {}
  /\ preferred_target = None
  /\ gpc = "idle"
  /\ gather_error = None
  /\ barrel_file = None
  /\ barrel_original = None
  /\ merges = 0
  /\ last_sync = None
  /\ bpc = "idle"
  /\ registry_deps = [s \in SlugNames |-> <<>>]
  /\ requested_slugs = <<>>
  /\ req_idx = 1
  /\ seen = {}
  /\ entries = <<>>
  /\ requested_entries = <<>>
  /\ dependency_entries = <<>>
  /\ kpc = "idle"
  /\ xpc = "idle"
  /\ pending = <<>>
  /\ next_fetch = 1
  /\ in_flight = {}
  /\ fetch_results = <<>>
  /\ gathered = <<>>
  /\ log_order = <<>>
  /\ written_content = [p \in PlannedPaths |-> 0]
  /\ installs = 0
  /\ run_result = "none"
  /\ fetch_error = "none"
  /\ hpc = "idle"
  /\ deps_dry_run = FALSE
  /\ handle_idx = 1
  /\ workspace_spec = NoSpec
  /\ project = [n \in Range(DepNames) |-> [entry |-> NoEntry, declared |-> None]]
  /\ requirement_issues = {}
  /\ deps_to_install = EmptyDeps
  /\ dev_deps_to_install = EmptyDeps
  /\ install_plans = <<>>
  /\ deps_result = "none"
  /\ tpc = "idle"
  /\ registry_path = <<>>
  /\ components_path = <<"components">>
  /\ component_slug = "button"
  /\ root_abs = PathBuf(TRUE, <<"repo">>)
  /\ relative_path = None
  /\ absolute_path = None
  /\ written_to = {}
  /\ ipc = "idle"
  /\ init_dry_run = FALSE
  /\ is_ui = FALSE
  /\ manage_here = TRUE
  /\ project_files = [f \in InitFiles |-> Absent]
  /\ pre_init = project_files
  /\ created_paths = <<>>
  /\ init_outcome = "none"
  /\ rolled_back = FALSE

\* a barrel file about to be merged into, in any state; the other machines are idle
InitBarrel ==
  /\ barrel_file \in {None} \cup {Some(t) : t \in BarrelTexts}
  /\ barrel_original = barrel_file
  /\ merges = 0
  /\ last_sync = None
  /\ bpc = "sync"
  \* the other machines are idle
  /\ components = [s \in Slugs |-> <<>>]
  /\ requested = GhostSlug
  /\ rpc = "idle"
  /\ call = NoCall
  /\ stack = <<>>
  /\ visiting = {}
  /\ visited = {}
  /\ ordered = <<>>
  /\ dry_run = FALSE
  /\ files = <<>>
  /\ barrel = NoBarrel
  /\ plans = 0
  /\ disk = [i \in Inodes |-> Absent]
  /\ pre_run = disk
  /\ written_files = <<>>
  /\ apc = "idle"
  /\ idx = 1
  /\ writes = 0
  /\ updates = 0
  /\ executed = 0
  /\ error = "none"
  /\ outcome = "none"
  /\ returned_error = "none"
  /\ rb_attempted = {}
  /\ rb_result = "none"
  /\ reported = {}
  /\ required_range = Star
  /\ node_modules = [d \in {"base", "parent"} |-> NoEntry]
  /\ declared_spec = None
  /\ uses_yarn_pnp = FALSE
  /\ dpc = "idle"
  /\ issues = <<>>
  /\ dependencies = <<>>
  /\ context = [repo_root |-> RepoRoot, workspace_root |-> None,
               workspace_package |-> None, package_manager |-> None]
  /\ lockfiles = {}
  /\ package_manager_field = None
  /\ bunfig_linker = None
  /\ ppc = "idle"
  /\ plan = None
  /\ ttl = 0
  /\ cache_entry = None
  /\ elapsed = 0
  /\ sidecar = None
  /\ pre_fetch = [entry |-> None, sidecar |-> None, elapsed |-> 0]
  /\ request = None
  /\ requests_sent = 0
  /\ response = None
  /\ fpc = "idle"
  /\ fetched = None
  /\ handles = <<WorkspaceHandle(1, "App", None)>>
  /\ component_files = <<>>
  /\ file_idx = 1
  /\ pending_files = <<>>
  /\ workspace_ids_for_component = {}
  /\ preferred_target = None
  /\ gpc = "idle"
  /\ gather_error = None
  /\ content = None
  /\ nhandle = [alias_prefix |-> <<"@">>, component_import_alias |-> None,
               components_path |-> <<"components">>]
  /\ normalized_content = <<>>
  /\ registry_deps = [s \in SlugNames |-> <<>>]
  /\ requested_slugs = <<>>
  /\ req_idx = 1
  /\ seen = {}
  /\ entries = <<>>
  /\ requested_entries = <<>>
  /\ dependency_entries = <<>>
  /\ kpc = "idle"
  /\ xpc = "idle"
  /\ pending = <<>>
  /\ next_fetch = 1
  /\ in_flight = {}
  /\ fetch_results = <<>>
  /\ gathered = <<>>
  /\ log_order = <<>>
  /\ written_content = [p \in PlannedPaths |-> 0]
  /\ installs = 0
  /\ run_result = "none"
  /\ fetch_error = "none"
  /\ hpc = "idle"
  /\ deps_dry_run = FALSE
  /\ handle_idx = 1
  /\ workspace_spec = NoSpec
  /\ project = [n \in Range(DepNames) |-> [entry |-> NoEntry, declared |-> None]]
  /\ requirement_issues = {}
  /\ deps_to_install = EmptyDeps
  /\ dev_deps_to_install = EmptyDeps
  /\ install_plans = <<>>
  /\ deps_result = "none"
  /\ tpc = "idle"
  /\ registry_path = <<>>
  /\ components_path = <<"components">>
  /\ component_slug = "button"
  /\ root_abs = PathBuf(TRUE, <<"repo">>)
  /\ relative_path = None
  /\ absolute_path = None
  /\ written_to = {}
  /\ ipc = "idle"
  /\ init_dry_run = FALSE
  /\ is_ui = FALSE
  /\ manage_here = TRUE
  /\ project_files = [f \in InitFiles |-> Absent]
  /\ pre_init = project_files
  /\ created_paths = <<>>
  /\ init_outcome = "none"
  /\ rolled_back = FALSE

\* collect_components about to start, for any registry and request; the other machines are idle
InitCollect ==
  /\ registry_deps \in ComponentMaps
  /\ requested_slugs \in SeqsUpTo(SlugNames, MaxRequested) \ {<<>>}
  /\ req_idx = 1
  /\ seen = {}
  /\ entries = <<>>
  /\ requested_entries = <<>>
  /\ dependency_entries = <<>>
  /\ kpc = "collect"
  \* the other machines are idle
  /\ components = [s \in Slugs |-> <<>>]
  /\ requested = GhostSlug
  /\ rpc = "idle"
  /\ call = NoCall
  /\ stack = <<>>
  /\ visiting = {}
  /\ visited = {}
  /\ ordered = <<>>
  /\ dry_run = FALSE
  /\ files = <<>>
  /\ barrel = NoBarrel
  /\ plans = 0
  /\ disk = [i \in Inodes |-> Absent]
  /\ pre_run = disk
  /\ written_files = <<>>
  /\ apc = "idle"
  /\ idx = 1
  /\ writes = 0
  /\ updates = 0
  /\ executed = 0
  /\ error = "none"
  /\ outcome = "none"
  /\ returned_error = "none"
  /\ rb_attempted = {}
  /\ rb_result = "none"
  /\ reported = {}
  /\ required_range = Star
  /\ node_modules = [d \in {"base", "parent"} |-> NoEntry]
  /\ declared_spec = None
  /\ uses_yarn_pnp = FALSE
  /\ dpc = "idle"
  /\ issues = <<>>
  /\ dependencies = <<>>
  /\ context = [repo_root |-> RepoRoot, workspace_root |-> None,
               workspace_package |-> None, package_manager |-> None]
  /\ lockfiles = {}
  /\ package_manager_field = None
  /\ bunfig_linker = None
  /\ ppc = "idle"
  /\ plan = None
  /\ ttl = 0
  /\ cache_entry = None
  /\ elapsed = 0
  /\ sidecar = None
  /\ pre_fetch = [entry |-> None, sidecar |-> None, elapsed |-> 0]
  /\ request = None
  /\ requests_sent = 0
  /\ response = None
  /\ fpc = "idle"
  /\ fetched = None
  /\ handles = <<WorkspaceHandle(1, "App", None)>>
  /\ component_files = <<>>
  /\ file_idx = 1
  /\ pending_files = <<>>
  /\ workspace_ids_for_component = {}
  /\ preferred_target = None
  /\ gpc = "idle"
  /\ gather_error = None
  /\ content = None
  /\ nhandle = [alias_prefix |-> <<"@">>, component_import_alias |-> None,
               components_path |-> <<"components">>]
  /\ normalized_content = <<>>
  /\ barrel_file = None
  /\ barrel_original = None
  /\ merges = 0
  /\ last_sync = None
  /\ bpc = "idle"
  /\ xpc = "idle"
  /\ pending = <<>>
  /\ next_fetch = 1
  /\ in_flight = {}
  /\ fetch_results = <<>>
  /\ gathered = <<>>
  /\ log_order = <<>>
  /\ written_content = [p \in PlannedPaths |-> 0]
  /\ installs = 0
  /\ run_result = "none"
  /\ fetch_error = "none"
  /\ hpc = "idle"
  /\ deps_dry_run = FALSE
  /\ handle_idx = 1
  /\ workspace_spec = NoSpec
  /\ project = [n \in Range(DepNames) |-> [entry |-> NoEntry, declared |-> None]]
  /\ requirement_issues = {}
  /\ deps_to_install = EmptyDeps
  /\ dev_deps_to_install = EmptyDeps
  /\ install_plans = <<>>
  /\ deps_result = "none"
  /\ tpc = "idle"
  /\ registry_path = <<>>
  /\ components_path = <<"components">>
  /\ component_slug = "button"
  /\ root_abs = PathBuf(TRUE, <<"repo">>)
  /\ relative_path = None
  /\ absolute_path = None
  /\ written_to = {}
  /\ ipc = "idle"
  /\ init_dry_run = FALSE
  /\ is_ui = FALSE
  /\ manage_here = TRUE
  /\ project_files = [f \in InitFiles |-> Absent]
  /\ pre_init = project_files
  /\ created_paths = <<>>
  /\ init_outcome = "none"
  /\ rolled_back = FALSE

\* a live run of `add` about to fetch the registry, for any list of planned files; the other machines are idle
InitRun ==
  /\ xpc = "lookup"
  /\ pending \in PendingLists
  /\ next_fetch = 1
  /\ in_flight = {}
  /\ fetch_results = <<>>
  /\ gathered = <<>>
  /\ log_order = <<>>
  /\ written_content = [p \in PlannedPaths |-> 0]
  /\ installs = 0
  /\ run_result = "none"
  /\ fetch_error = "none"
  \* the other machines are idle
  /\ components = [s \in Slugs |-> <<>>]
  /\ requested = GhostSlug
  /\ rpc = "idle"
  /\ call = NoCall
  /\ stack = <<>>
  /\ visiting = {}
  /\ visited = {}
  /\ ordered = <<>>
  /\ dry_run = FALSE
  /\ files = <<>>
  /\ barrel = NoBarrel
  /\ plans = 0
  /\ disk = [i \in Inodes |-> Absent]
  /\ pre_run = disk
  /\ written_files = <<>>
  /\ apc = "idle"
  /\ idx = 1
  /\ writes = 0
  /\ updates = 0
  /\ executed = 0
  /\ error = "none"
  /\ outcome = "none"
  /\ returned_error = "none"
  /\ rb_attempted = {}
  /\ rb_result = "none"
  /\ reported = {}
  /\ required_range = Star
  /\ node_modules = [d \in {"base", "parent"} |-> NoEntry]
  /\ declared_spec = None
  /\ uses_yarn_pnp = FALSE
  /\ dpc = "idle"
  /\ issues = <<>>
  /\ dependencies = <<>>
  /\ context = [repo_root |-> RepoRoot, workspace_root |-> None,
               workspace_package |-> None, package_manager |-> None]
  /\ lockfiles = {}
  /\ package_manager_field = None
  /\ bunfig_linker = None
  /\ ppc = "idle"
  /\ plan = None
  /\ ttl = 0
  /\ cache_entry = None
  /\ elapsed = 0
  /\ sidecar = None
  /\ pre_fetch = [entry |-> None, sidecar |-> None, elapsed |-> 0]
  /\ request = None
  /\ requests_sent = 0
  /\ response = None
  /\ fpc = "idle"
  /\ fetched = None
  /\ handles = <<WorkspaceHandle(1, "App", None)>>
  /\ component_files = <<>>
  /\ file_idx = 1
  /\ pending_files = <<>>
  /\ workspace_ids_for_component = {}
  /\ preferred_target = None
  /\ gpc = "idle"
  /\ gather_error = None
  /\ content = None
  /\ nhandle = [alias_prefix |-> <<"@">>, component_import_alias |-> None,
               components_path |-> <<"components">>]
  /\ normalized_content = <<>>
  /\ barrel_file = None
  /\ barrel_original = None
  /\ merges = 0
  /\ last_sync = None
  /\ bpc = "idle"
  /\ registry_deps = [s \in SlugNames |-> <<>>]
  /\ requested_slugs = <<>>
  /\ req_idx = 1
  /\ seen = {}
  /\ entries = <<>>
  /\ requested_entries = <<>>
  /\ dependency_entries = <<>>
  /\ kpc = "idle"
  /\ hpc = "idle"
  /\ deps_dry_run = FALSE
  /\ handle_idx = 1
  /\ workspace_spec = NoSpec
  /\ project = [n \in Range(DepNames) |-> [entry |-> NoEntry, declared |-> None]]
  /\ requirement_issues = {}
  /\ deps_to_install = EmptyDeps
  /\ dev_deps_to_install = EmptyDeps
  /\ install_plans = <<>>
  /\ deps_result = "none"
  /\ tpc = "idle"
  /\ registry_path = <<>>
  /\ components_path = <<"components">>
  /\ component_slug = "button"
  /\ root_abs = PathBuf(TRUE, <<"repo">>)
  /\ relative_path = None
  /\ absolute_path = None
  /\ written_to = {}
  /\ ipc = "idle"
  /\ init_dry_run = FALSE
  /\ is_ui = FALSE
  /\ manage_here = TRUE
  /\ project_files = [f \in InitFiles |-> Absent]
  /\ pre_init = project_files
  /\ created_paths = <<>>
  /\ init_outcome = "none"
  /\ rolled_back = FALSE

\* handle_workspace_dependencies about to visit the first workspace, in a dry or a live run; the other machines are idle
InitDependencies ==
  /\ hpc = "handle"
  /\ deps_dry_run \in BOOLEAN
  /\ handle_idx = 1
  /\ workspace_spec = NoSpec
  /\ project = [n \in Range(DepNames) |-> [entry |-> NoEntry, declared |-> None]]
  /\ requirement_issues = {}
  /\ deps_to_install = EmptyDeps
  /\ dev_deps_to_install = EmptyDeps
  /\ install_plans = <<>>
  /\ deps_result = "none"
  \* the other machines are idle
  /\ components = [s \in Slugs |-> <<>>]
  /\ requested = GhostSlug
  /\ rpc = "idle"
  /\ call = NoCall
  /\ stack = <<>>
  /\ visiting = {}
  /\ visited = {}
  /\ ordered = <<>>
  /\ dry_run = FALSE
  /\ files = <<>>
  /\ barrel = NoBarrel
  /\ plans = 0
  /\ disk = [i \in Inodes |-> Absent]
  /\ pre_run = disk
  /\ written_files = <<>>
  /\ apc = "idle"
  /\ idx = 1
  /\ writes = 0
  /\ updates = 0
  /\ executed = 0
  /\ error = "none"
  /\ outcome = "none"
  /\ returned_error = "none"
  /\ rb_attempted = {}
  /\ rb_result = "none"
  /\ reported = {}
  /\ required_range = Star
  /\ node_modules = [d \in {"base", "parent"} |-> NoEntry]
  /\ declared_spec = None
  /\ uses_yarn_pnp = FALSE
  /\ dpc = "idle"
  /\ issues = <<>>
  /\ dependencies = <<>>
  /\ context = [repo_root |-> RepoRoot, workspace_root |-> None,
               workspace_package |-> None, package_manager |-> None]
  /\ lockfiles = {}
  /\ package_manager_field = None
  /\ bunfig_linker = None
  /\ ppc = "idle"
  /\ plan = None
  /\ ttl = 0
  /\ cache_entry = None
  /\ elapsed = 0
  /\ sidecar = None
  /\ pre_fetch = [entry |-> None, sidecar |-> None, elapsed |-> 0]
  /\ request = None
  /\ requests_sent = 0
  /\ response = None
  /\ fpc = "idle"
  /\ fetched = None
  /\ handles = <<WorkspaceHandle(1, "App", None)>>
  /\ component_files = <<>>
  /\ file_idx = 1
  /\ pending_files = <<>>
  /\ workspace_ids_for_component = {}
  /\ preferred_target = None
  /\ gpc = "idle"
  /\ gather_error = None
  /\ content = None
  /\ nhandle = [alias_prefix |-> <<"@">>, component_import_alias |-> None,
               components_path |-> <<"components">>]
  /\ normalized_content = <<>>
  /\ barrel_file = None
  /\ barrel_original = None
  /\ merges = 0
  /\ last_sync = None
  /\ bpc = "idle"
  /\ registry_deps = [s \in SlugNames |-> <<>>]
  /\ requested_slugs = <<>>
  /\ req_idx = 1
  /\ seen = {}
  /\ entries = <<>>
  /\ requested_entries = <<>>
  /\ dependency_entries = <<>>
  /\ kpc = "idle"
  /\ xpc = "idle"
  /\ pending = <<>>
  /\ next_fetch = 1
  /\ in_flight = {}
  /\ fetch_results = <<>>
  /\ gathered = <<>>
  /\ log_order = <<>>
  /\ written_content = [p \in PlannedPaths |-> 0]
  /\ installs = 0
  /\ run_result = "none"
  /\ fetch_error = "none"
  /\ tpc = "idle"
  /\ registry_path = <<>>
  /\ components_path = <<"components">>
  /\ component_slug = "button"
  /\ root_abs = PathBuf(TRUE, <<"repo">>)
  /\ relative_path = None
  /\ absolute_path = None
  /\ written_to = {}
  /\ ipc = "idle"
  /\ init_dry_run = FALSE
  /\ is_ui = FALSE
  /\ manage_here = TRUE
  /\ project_files = [f \in InitFiles |-> Absent]
  /\ pre_init = project_files
  /\ created_paths = <<>>
  /\ init_outcome = "none"
  /\ rolled_back = FALSE

\* one component file about to be placed in a live run, for any registry path; the other machines are idle
InitPlace ==
  /\ tpc = "plan"
  /\ registry_path \in RegistryPaths
  /\ components_path \in ComponentsPaths
  /\ component_slug = "button"
  /\ root_abs \in WorkspaceRoots
  /\ relative_path = None
  /\ absolute_path = None
  /\ written_to = {}
  \* the other machines are idle
  /\ components = [s \in Slugs |-> <<>>]
  /\ requested = GhostSlug
  /\ rpc = "idle"
  /\ call = NoCall
  /\ stack = <<>>
  /\ visiting = {}
  /\ visited = {}
  /\ ordered = <<>>
  /\ dry_run = FALSE
  /\ files = <<>>
  /\ barrel = NoBarrel
  /\ plans = 0
  /\ disk = [i \in Inodes |-> Absent]
  /\ pre_run = disk
  /\ written_files = <<>>
  /\ apc = "idle"
  /\ idx = 1
  /\ writes = 0
  /\ updates = 0
  /\ executed = 0
  /\ error = "none"
  /\ outcome = "none"
  /\ returned_error = "none"
  /\ rb_attempted = {}
  /\ rb_result = "none"
  /\ reported = {}
  /\ required_range = Star
  /\ node_modules = [d \in {"base", "parent"} |-> NoEntry]
  /\ declared_spec = None
  /\ uses_yarn_pnp = FALSE
  /\ dpc = "idle"
  /\ issues = <<>>
  /\ dependencies = <<>>
  /\ context = [repo_root |-> RepoRoot, workspace_root |-> None,
               workspace_package |-> None, package_manager |-> None]
  /\ lockfiles = {}
  /\ package_manager_field = None
  /\ bunfig_linker = None
  /\ ppc = "idle"
  /\ plan = None
  /\ ttl = 0
  /\ cache_entry = None
  /\ elapsed = 0
  /\ sidecar = None
  /\ pre_fetch = [entry |-> None, sidecar |-> None, elapsed |-> 0]
  /\ request = None
  /\ requests_sent = 0
  /\ response = None
  /\ fpc = "idle"
  /\ fetched = None
  /\ handles = <<WorkspaceHandle(1, "App", None)>>
  /\ component_files = <<>>
  /\ file_idx = 1
  /\ pending_files = <<>>
  /\ workspace_ids_for_component = {}
  /\ preferred_target = None
  /\ gpc = "idle"
  /\ gather_error = None
  /\ content = None
  /\ nhandle = [alias_prefix |-> <<"@">>, component_import_alias |-> None,
               components_path |-> <<"components">>]
  /\ normalized_content = <<>>
  /\ barrel_file = None
  /\ barrel_original = None
  /\ merges = 0
  /\ last_sync = None
  /\ bpc = "idle"
  /\ registry_deps = [s \in SlugNames |-> <<>>]
  /\ requested_slugs = <<>>
  /\ req_idx = 1
  /\ seen = {}
  /\ entries = <<>>
  /\ requested_entries = <<>>
  /\ dependency_entries = <<>>
  /\ kpc = "idle"
  /\ xpc = "idle"
  /\ pending = <<>>
  /\ next_fetch = 1
  /\ in_flight = {}
  /\ fetch_results = <<>>
  /\ gathered = <<>>
  /\ log_order = <<>>
  /\ written_content = [p \in PlannedPaths |-> 0]
  /\ installs = 0
  /\ run_result = "none"
  /\ fetch_error = "none"
  /\ hpc = "idle"
  /\ deps_dry_run = FALSE
  /\ handle_idx = 1
  /\ workspace_spec = NoSpec
  /\ project = [n \in Range(DepNames) |-> [entry |-> NoEntry, declared |-> None]]
  /\ requirement_issues = {}
  /\ deps_to_install = EmptyDeps
  /\ dev_deps_to_install = EmptyDeps
  /\ install_plans = <<>>
  /\ deps_result = "none"
  /\ ipc = "idle"
  /\ init_dry_run = FALSE
  /\ is_ui = FALSE
  /\ manage_here = TRUE
  /\ project_files = [f \in InitFiles |-> Absent]
  /\ pre_init = project_files
  /\ created_paths = <<>>
  /\ init_outcome = "none"
  /\ rolled_back = FALSE

\* a run of init on a project without nocta.config.json, dry or live; the other machines are idle
InitInit ==
  /\ ipc = "checks"
  /\ init_dry_run \in BOOLEAN
  /\ is_ui \in BOOLEAN
  /\ manage_here \in {m \in BOOLEAN : is_ui => m}
  /\ project_files \in InitTrees
  /\ pre_init = project_files
  /\ created_paths = <<>>
  /\ init_outcome = "none"
  /\ rolled_back = FALSE
  \* the other machines are idle
  /\ components = [s \in Slugs |-> <<>>]
  /\ requested = GhostSlug
  /\ rpc = "idle"
  /\ call = NoCall
  /\ stack = <<>>
  /\ visiting = {}
  /\ visited = {}
  /\ ordered = <<>>
  /\ dry_run = FALSE
  /\ files = <<>>
  /\ barrel = NoBarrel
  /\ plans = 0
  /\ disk = [i \in Inodes |-> Absent]
  /\ pre_run = disk
  /\ written_files = <<>>
  /\ apc = "idle"
  /\ idx = 1
  /\ writes = 0
  /\ updates = 0
  /\ executed = 0
  /\ error = "none"
  /\ outcome = "none"
  /\ returned_error = "none"
  /\ rb_attempted = {}
  /\ rb_result = "none"
  /\ reported = {}
  /\ required_range = Star
  /\ node_modules = [d \in {"base", "parent"} |-> NoEntry]
  /\ declared_spec = None
  /\ uses_yarn_pnp = FALSE
  /\ dpc = "idle"
  /\ issues = <<>>
  /\ dependencies = <<>>
  /\ context = [repo_root |-> RepoRoot, workspace_root |-> None,
               workspace_package |-> None, package_manager |-> None]
  /\ lockfiles = {}
  /\ package_manager_field = None
  /\ bunfig_linker = None
  /\ ppc = "idle"
  /\ plan = None
  /\ ttl = 0
  /\ cache_entry = None
  /\ elapsed = 0
  /\ sidecar = None
  /\ pre_fetch = [entry |-> None, sidecar |-> None, elapsed |-> 0]
  /\ request = None
  /\ requests_sent = 0
  /\ response = None
  /\ fpc = "idle"
  /\ fetched = None
  /\ handles = <<WorkspaceHandle(1, "App", None)>>
  /\ component_files = <<>>
  /\ file_idx = 1
  /\ pending_files = <<>>
  /\ workspace_ids_for_component = {}
  /\ preferred_target = None
  /\ gpc = "idle"
  /\ gather_error = None
  /\ content = None
  /\ nhandle = [alias_prefix |-> <<"@">>, component_import_alias |-> None,
               components_path |-> <<"components">>]
  /\ normalized_content = <<>>
  /\ barrel_file = None
  /\ barrel_original = None
  /\ merges = 0
  /\ last_sync = None
  /\ bpc = "idle"
  /\ registry_deps = [s \in SlugNames |-> <<>>]
  /\ requested_slugs = <<>>
  /\ req_idx = 1
  /\ seen = {}
  /\ entries = <<>>
  /\ requested_entries = <<>>
  /\ dependency_entries = <<>>
  /\ kpc = "idle"
  /\ xpc = "idle"
  /\ pending = <<>>
  /\ next_fetch = 1
  /\ in_flight = {}
  /\ fetch_results = <<>>
  /\ gathered = <<>>
  /\ log_order = <<>>
  /\ written_content = [p \in PlannedPaths |-> 0]
  /\ installs = 0
  /\ run_result = "none"
  /\ fetch_error = "none"
  /\ hpc = "idle"
  /\ deps_dry_run = FALSE
  /\ handle_idx = 1
  /\ workspace_spec = NoSpec
  /\ project = [n \in Range(DepNames) |-> [entry |-> NoEntry, declared |-> None]]
  /\ requirement_issues = {}
  /\ deps_to_install = EmptyDeps
  /\ dev_deps_to_install = EmptyDeps
  /\ install_plans = <<>>
  /\ deps_result = "none"
  /\ tpc = "idle"
  /\ registry_path = <<>>
  /\ components_path = <<"components">>
  /\ component_slug = "button"
  /\ root_abs = PathBuf(TRUE, <<"repo">>)
  /\ relative_path = None
  /\ absolute_path = None
  /\ written_to = {}

SpecResolve == InitResolve /\ [][NextResolve]_vars

\* the recursion is ordinary sequential code: it keeps running until it returns
FairResolve == SpecResolve /\ WF_vars(NextResolve)

SpecAdd == InitAdd /\ [][NextAdd]_vars

SpecDeps == InitDeps /\ [][NextDeps]_vars

SpecPlan == InitPlan /\ [][NextPlan]_vars

SpecCache == InitCache /\ [][NextCache]_vars

SpecSelect == InitSelect /\ [][NextGather]_vars

SpecGather == InitGather /\ [][NextGather]_vars

SpecNormalize == InitNormalize /\ [][NextNormalize]_vars

SpecBarrel == InitBarrel /\ [][NextBarrel]_vars

SpecCollect == InitCollect /\ [][NextCollect]_vars

SpecRun == InitRun /\ [][NextRun]_vars

SpecDependencies == InitDependencies /\ [][NextDependencies]_vars

SpecPlace == InitPlace /\ [][NextPlace]_vars

SpecInit == InitInit /\ [][NextInit]_vars

====
